---- MODULE Spec2Model ----
(***************************************************************************)
(* A model of dice-rust's JVM-compatible execution subsystem: the          *)
(* constant pool (jvm_types.rs), the dice bytecode generator and class     *)
(* writer (java_class_generator.rs), the class-file reader                 *)
(* (class_file_parser.rs) and the interpreter (jvm_compatible_vm.rs).      *)
(*                                                                         *)
(* Text is modelled as the sequence of its bytes, so that writing a string *)
(* to a class file, reading it back, comparing it with a literal, taking a *)
(* prefix of it and printing it are all computed, not assumed.             *)
(***************************************************************************)
EXTENDS Integers, Sequences, FiniteSets, TLC

(* The string literals of the source, each as its UTF-8 bytes. *)
Str ==
    [ DiceRoll |-> <<68, 105, 99, 101, 82, 111, 108, 108>>,  \* "DiceRoll"
      java_lang_Object |-> <<106, 97, 118, 97, 47, 108, 97, 110, 103, 47, 79, 98, 106, 101, 99, 116>>,  \* "java/lang/Object"
      main |-> <<109, 97, 105, 110>>,  \* "main"
      main_descriptor |-> <<40, 91, 76, 106, 97, 118, 97, 47, 108, 97, 110, 103, 47, 83, 116, 114, 105, 110, 103, 59, 41, 86>>,  \* "([Ljava/lang/String;)V"
      Code |-> <<67, 111, 100, 101>>,  \* "Code"
      java_lang_System |-> <<106, 97, 118, 97, 47, 108, 97, 110, 103, 47, 83, 121, 115, 116, 101, 109>>,  \* "java/lang/System"
      out |-> <<111, 117, 116>>,  \* "out"
      err |-> <<101, 114, 114>>,  \* "err"
      PrintStream_type |-> <<76, 106, 97, 118, 97, 47, 105, 111, 47, 80, 114, 105, 110, 116, 83, 116, 114, 101, 97, 109, 59>>,  \* "Ljava/io/PrintStream;"
      java_io_PrintStream |-> <<106, 97, 118, 97, 47, 105, 111, 47, 80, 114, 105, 110, 116, 83, 116, 114, 101, 97, 109>>,  \* "java/io/PrintStream"
      println |-> <<112, 114, 105, 110, 116, 108, 110>>,  \* "println"
      I_V |-> <<40, 73, 41, 86>>,  \* "(I)V"
      java_lang_Math |-> <<106, 97, 118, 97, 47, 108, 97, 110, 103, 47, 77, 97, 116, 104>>,  \* "java/lang/Math"
      random |-> <<114, 97, 110, 100, 111, 109>>,  \* "random"
      void_D |-> <<40, 41, 68>>,  \* "()D"
      Total |-> <<84, 111, 116, 97, 108, 58, 32>>,  \* "Total: "
      print |-> <<112, 114, 105, 110, 116>>,  \* "print"
      String_V |-> <<40, 76, 106, 97, 118, 97, 47, 108, 97, 110, 103, 47, 83, 116, 114, 105, 110, 103, 59, 41, 86>>,  \* "(Ljava/lang/String;)V"
      Object_V |-> <<40, 76, 106, 97, 118, 97, 47, 108, 97, 110, 103, 47, 79, 98, 106, 101, 99, 116, 59, 41, 86>>,  \* "(Ljava/lang/Object;)V"
      F_V |-> <<40, 70, 41, 86>>,  \* "(F)V"
      D_V |-> <<40, 68, 41, 86>>,  \* "(D)V"
      Z_V |-> <<40, 90, 41, 86>>,  \* "(Z)V"
      C_V |-> <<40, 67, 41, 86>>,  \* "(C)V"
      J_V |-> <<40, 74, 41, 86>>,  \* "(J)V"
      void_V |-> <<40, 41, 86>>,  \* "()V"
      java_prefix |-> <<106, 97, 118, 97, 47>>,  \* "java/"
      Hello |-> <<72, 101, 108, 108, 111, 44, 32, 87, 111, 114, 108, 100, 33>>,  \* "Hello, World!"
      null |-> <<110, 117, 108, 108>>,  \* "null"
      true |-> <<116, 114, 117, 101>>,  \* "true"
      false |-> <<102, 97, 108, 115, 101>>,  \* "false"
      max |-> <<109, 97, 120>>,  \* "max"
      min |-> <<109, 105, 110>>,  \* "min"
      abs |-> <<97, 98, 115>>,  \* "abs"
      II_I |-> <<40, 73, 73, 41, 73>>,  \* "(II)I"
      I_I |-> <<40, 73, 41, 73>>,  \* "(I)I"
      java_lang_String |-> <<106, 97, 118, 97, 47, 108, 97, 110, 103, 47, 83, 116, 114, 105, 110, 103>>,  \* "java/lang/String"
      Demo |-> <<68, 101, 109, 111>>,  \* "Demo"
      a |-> <<97>>,  \* "a"
      b |-> <<98>>,  \* "b"
      f |-> <<102>>,  \* "f"
      g |-> <<103>>,  \* "g"
      void_I |-> <<40, 41, 73>>,  \* "()I"
      II_V |-> <<40, 73, 73, 41, 86>>,  \* "(II)V"
      java_lang_Integer |-> <<106, 97, 118, 97, 47, 108, 97, 110, 103, 47, 73, 110, 116, 101, 103, 101, 114>>,  \* "java/lang/Integer"
      toString |-> <<116, 111, 83, 116, 114, 105, 110, 103>>,  \* "toString"
      I_String |-> <<40, 73, 41, 76, 106, 97, 118, 97, 47, 108, 97, 110, 103, 47, 83, 116, 114, 105, 110, 103, 59>>,  \* "(I)Ljava/lang/String;"
      java_lang_StringBuilder |-> <<106, 97, 118, 97, 47, 108, 97, 110, 103, 47, 83, 116, 114, 105, 110, 103, 66, 117, 105, 108, 100, 101, 114>>,  \* "java/lang/StringBuilder"
      void_String |-> <<40, 41, 76, 106, 97, 118, 97, 47, 108, 97, 110, 103, 47, 83, 116, 114, 105, 110, 103, 59>> ]  \* "()Ljava/lang/String;"

---------------------------------------------------------------------------
(* Bounds of the model.                                                    *)

(* The step budget: JvmCompatibleVm::new sets max_steps to 100_000; the    *)
(* model runs the same loop with a smaller budget.                         *)
max_steps == 60

(* How many nested invoke_user_defined_method activations the native stack *)
(* holds before the process dies of stack overflow.                        *)
MaxNativeDepth == 5

(* Significant bits of a double.  An f64 carries 53 and Math.random draws  *)
(* one of 2^53 values k / 2^53; the model keeps the same arithmetic        *)
(* (round to nearest, ties to even) on a shorter significand.              *)
MantBits == 12

(* Largest dice count the front end hands to the generator in the model.   *)
MaxCount == 2

(* How many adds the model follows on a pool. *)
MaxAdds == 3

(* Most parameters of a method descriptor in the model. *)
MaxParams == 3

(* Most constant-pool entries before the entry a malformed class file ends *)
(* with.                                                                   *)
MaxPrefix == 2
MaxCode == 3

---------------------------------------------------------------------------
(* Machine integers.                                                       *)

i32_MAX == 2147483647
i32_MIN == -i32_MAX - 1
u16_MAX == 65535

Abs(n) == IF n < 0 THEN -n ELSE n
Sign(n) == IF n < 0 THEN -1 ELSE 1

RECURSIVE Pow2(_)
Pow2(k) == IF k <= 0 THEN 1 ELSE 2 * Pow2(k - 1)

(* Number of bits of n >= 0 (0 for 0). *)
RECURSIVE BitLen(_)
BitLen(n) == IF n = 0 THEN 0 ELSE 1 + BitLen(n \div 2)

(* i32 `a + b`: whether the exact sum leaves the i32 range, and the value  *)
(* two's-complement arithmetic leaves when it does.                        *)
AddOverflows(a, b) ==
    \/ b > 0 /\ a > i32_MAX - b
    \/ b < 0 /\ a < i32_MIN - b

WrappingAdd(a, b) ==
    IF b > 0 /\ a > i32_MAX - b THEN (a - i32_MAX - 1) + (b + i32_MIN)
    ELSE IF b < 0 /\ a < i32_MIN - b THEN (a - i32_MIN) + (b + i32_MAX + 1)
    ELSE a + b

(* i32 `-b` wraps only for i32::MIN. *)
WrappingNeg(b) == IF b = i32_MIN THEN i32_MIN ELSE -b

SubOverflows(a, b) ==
    \/ b < 0 /\ a > i32_MAX + b
    \/ b > 0 /\ a < i32_MIN + b

WrappingSub(a, b) ==
    IF b < 0 /\ a > i32_MAX + b THEN (a - i32_MAX - 1) + (i32_MIN - b)
    ELSE IF b > 0 /\ a < i32_MIN + b THEN (a - i32_MIN) + (i32_MAX - b + 1)
    ELSE a - b

(* The four bytes of an i32, least significant first (two's complement). *)
Bytes32(a) ==
    LET r == IF a >= 0 THEN a ELSE a - i32_MIN   \* a with the sign bit cleared
        top == (r \div 16777216) + (IF a >= 0 THEN 0 ELSE 128)
    IN  << r % 256, (r \div 256) % 256, (r \div 65536) % 256, top >>

FromBytes32(s) ==
    IF s[4] >= 128
    THEN ((s[4] - 128) * 16777216 + s[3] * 65536 + s[2] * 256 + s[1]) + i32_MIN
    ELSE s[4] * 16777216 + s[3] * 65536 + s[2] * 256 + s[1]

(* i32 `a * b` modulo 2^32, by byte-wise long multiplication. *)
WrappingMul(a, b) ==
    LET x == Bytes32(a)
        y == Bytes32(b)
        c1 == x[1] * y[1]
        c2 == x[1] * y[2] + x[2] * y[1] + (c1 \div 256)
        c3 == x[1] * y[3] + x[2] * y[2] + x[3] * y[1] + (c2 \div 256)
        c4 == x[1] * y[4] + x[2] * y[3] + x[3] * y[2] + x[4] * y[1] + (c3 \div 256)
    IN  FromBytes32(<< c1 % 256, c2 % 256, c3 % 256, c4 % 256 >>)

(* i32 `a / b` and `a % b` for b # 0 and not (MIN, -1): Rust truncates     *)
(* toward zero and the remainder takes the sign of the dividend.           *)
(* The quotient is computed on magnitudes, none of which leaves the i32    *)
(* range: 2^31 = i32_MAX + 1 is divided as i32_MAX with one added.         *)
TruncDiv(a, b) ==
    LET negative == (a < 0) # (b < 0)
        magnitude ==
            IF b = i32_MIN THEN (IF a = i32_MIN THEN 1 ELSE 0)
            ELSE IF a = i32_MIN
                 THEN (i32_MAX \div Abs(b)) + (IF i32_MAX % Abs(b) = Abs(b) - 1 THEN 1 ELSE 0)
            ELSE Abs(a) \div Abs(b)
    IN  IF negative THEN -magnitude ELSE magnitude

TruncRem(a, b) == a - TruncDiv(a, b) * b

(* Whether the exact product leaves the i32 range. *)
MulOverflows(a, b) ==
    /\ a # 0
    /\ \/ a = -1 /\ b = i32_MIN
       \/ a # -1 /\ TruncDiv(WrappingMul(a, b), a) # b

(* The concatenation of a sequence of sequences, halves first: what a loop *)
(* that appends each in turn builds.                                       *)
RECURSIVE Concat(_)
Concat(seqs) ==
    IF Len(seqs) = 0 THEN << >>
    ELSE IF Len(seqs) = 1 THEN seqs[1]
    ELSE Concat(SubSeq(seqs, 1, Len(seqs) \div 2))
         \o Concat(SubSeq(seqs, Len(seqs) \div 2 + 1, Len(seqs)))

---------------------------------------------------------------------------
(* Doubles.  A double is [m, e] standing for m * 2^e with m odd (or 0 with *)
(* e = 0); every operation rounds its exact result to MantBits significant *)
(* bits, to nearest with ties to even, as IEEE 754 arithmetic does.        *)

RECURSIVE Normalize(_, _)
Normalize(m, e) ==
    IF m = 0 THEN [m |-> 0, e |-> 0]
    ELSE IF m % 2 = 0 THEN Normalize(m \div 2, e + 1)
    ELSE [m |-> m, e |-> e]

RoundToNearestEven(m, e) ==
    LET n == Abs(m)
        s == BitLen(n) - MantBits
    IN  IF s <= 0 THEN Normalize(m, e)
        ELSE LET q == n \div Pow2(s)
                 r == n % Pow2(s)
                 half == Pow2(s - 1)
                 up == r > half \/ (r = half /\ q % 2 = 1)
             IN  Normalize(Sign(m) * (IF up THEN q + 1 ELSE q), e + s)

(* `value as f64` of an i32. *)
IntToDouble(i) ==
    IF i = i32_MIN THEN [m |-> -1, e |-> 31] ELSE RoundToNearestEven(i, 0)

DoubleMul(a, b) == RoundToNearestEven(a.m * b.m, a.e + b.e)

DoubleAdd(a, b) ==
    LET lo == IF a.e <= b.e THEN a ELSE b
        hi == IF a.e <= b.e THEN b ELSE a
        shift == hi.e - lo.e
    IN  IF a.m = 0 THEN b
        ELSE IF b.m = 0 THEN a
        ELSE IF BitLen(Abs(hi.m)) + shift > 30 THEN hi   \* lo is below a quarter ulp of hi
        ELSE RoundToNearestEven(hi.m * Pow2(shift) + lo.m, lo.e)

DoubleNeg(a) == [m |-> -a.m, e |-> a.e]

DoubleSub(a, b) == DoubleAdd(a, DoubleNeg(b))

(* a / b for b # 0: the quotient is computed with MantBits + 2 bits and a  *)
(* sticky bit for the remainder, then rounded.                             *)
DoubleDiv(a, b) ==
    LET n == Abs(a.m)
        d == Abs(b.m)
        k == (BitLen(d) + MantBits + 2) - BitLen(n)
        num == n * Pow2(k)
        q == num \div d
        sticky == IF num % d = 0 THEN 0 ELSE 1
        sgn == Sign(a.m) * Sign(b.m)
    IN  IF a.m = 0 THEN a
        ELSE RoundToNearestEven(sgn * (2 * q + sticky), a.e - b.e - k - 1)

DoubleLess(a, b) == DoubleSub(a, b).m < 0

(* `d as i32`: truncation toward zero, saturating at the i32 range. *)
DoubleToInt(d) ==
    IF d.e >= 0
    THEN IF BitLen(Abs(d.m)) + d.e > 31
         THEN (IF d.m < 0 THEN i32_MIN ELSE i32_MAX)
         ELSE d.m * Pow2(d.e)
    ELSE IF -d.e > 30 THEN 0
    ELSE Sign(d.m) * (Abs(d.m) \div Pow2(-d.e))

(* The outcomes of Math.random(): rng.random::<f64>() draws k / 2^53 with  *)
(* 0 <= k < 2^53; here k / 2^MantBits with 0 <= k < 2^MantBits, of which   *)
(* the smallest, the largest and three in between are explored.            *)
RandomOutcomes ==
    { Normalize(k, -MantBits) :
        k \in { 0, 1, Pow2(MantBits - 1), Pow2(MantBits - 1) + 1, Pow2(MantBits) - 1 } }

---------------------------------------------------------------------------
(* JvmValue: the tagged values of operand stacks, locals and object        *)
(* fields.  Every value is a record [t, v, x]; doubles and floats keep     *)
(* their significand in v and their exponent in x, a reference keeps its   *)
(* object id in v and x = 1, and the null reference is v = 0, x = 0.       *)

JvmInt(i) == [t |-> "Int", v |-> i, x |-> 0]
JvmLong(l) == [t |-> "Long", v |-> l, x |-> 0]
JvmFloat(f) == [t |-> "Float", v |-> f.m, x |-> f.e]
JvmDouble(d) == [t |-> "Double", v |-> d.m, x |-> d.e]
JvmReference(id) == [t |-> "Reference", v |-> id, x |-> 1]
JvmNull == [t |-> "Reference", v |-> 0, x |-> 0]
JvmBoolean(b) == [t |-> "Boolean", v |-> IF b THEN 1 ELSE 0, x |-> 0]
JvmChar(c) == [t |-> "Char", v |-> c, x |-> 0]

DoubleOf(val) == [m |-> val.v, e |-> val.x]

(* JvmValue::as_int: Int, Float (truncated), Char and Boolean coerce. *)
IsIntCoercible(val) == val.t \in {"Int", "Float", "Char", "Boolean"}

as_int(val) ==
    IF val.t = "Float" THEN DoubleToInt(DoubleOf(val)) ELSE val.v

---------------------------------------------------------------------------
(* Text.                                                                   *)

RECURSIVE Digits(_)
Digits(n) ==
    IF n < 10 THEN << 48 + n >> ELSE Append(Digits(n \div 10), 48 + (n % 10))

(* i32::to_string *)
IntToString(i) ==
    IF i = i32_MIN THEN << 45 >> \o Digits(214748364) \o << 56 >>
    ELSE IF i < 0 THEN << 45 >> \o Digits(-i)
    ELSE Digits(i)

(* The decimal digits of the fraction num / 2^k, 0 < num < 2^k. *)
RECURSIVE FractionDigits(_, _)
FractionDigits(num, k) ==
    IF num = 0 THEN << >>
    ELSE << 48 + ((num * 10) \div Pow2(k)) >> \o FractionDigits((num * 10) % Pow2(k), k)

(* f64::to_string for the values whose exact decimal expansion is the      *)
(* shortest that reads back: an integral value prints without a fraction.  *)
DoubleToString(d) ==
    LET whole == DoubleToInt(d)
        num == Abs(d.m) % Pow2(-d.e)
    IN  IF d.e >= 0 THEN IntToString(whole)
        ELSE (IF d.m < 0 /\ whole = 0 THEN << 45 >> ELSE << >>)
             \o IntToString(whole) \o << 46 >> \o FractionDigits(num, -d.e)

(* `c as u8 as char` printed: the char is cut to its low byte and written  *)
(* as UTF-8, two bytes from U+0080 on.                                     *)
CharToString(c) ==
    LET b == c % 256
    IN  IF b < 128 THEN << b >> ELSE << 192 + (b \div 64), 128 + (b % 64) >>

(* The text PrintStream.println(I)V writes for a value. *)
ValueToString(val) ==
    CASE val.t = "Int" -> IntToString(val.v)
      [] val.t = "Long" -> IntToString(val.v)
      [] val.t = "Double" -> DoubleToString(DoubleOf(val))
      [] val.t = "Float" -> DoubleToString(DoubleOf(val))
      [] val.t = "Boolean" -> (IF val.v = 1 THEN Str.true ELSE Str.false)
      [] val.t = "Char" -> CharToString(val.v)
      [] OTHER -> Str.null

StartsWith(s, prefix) ==
    Len(s) >= Len(prefix) /\ SubSeq(s, 1, Len(prefix)) = prefix

---------------------------------------------------------------------------
(* Constant pool (jvm_types.rs).  An entry is [tag, a, b, s]: a and b hold *)
(* the indices or the number of the entry, s the text of a Utf8 entry.     *)
(* The pool is the vector `entries`; the entry of JVM index k is the       *)
(* vector element k - 1 of the source and the element k of the sequence.   *)

CpUtf8(value) == [tag |-> "Utf8", a |-> 0, b |-> 0, s |-> value]
CpClass(name_index) == [tag |-> "Class", a |-> name_index, b |-> 0, s |-> << >>]
CpString(utf8_index) == [tag |-> "String", a |-> utf8_index, b |-> 0, s |-> << >>]
CpFieldref(class_index, name_and_type_index) ==
    [tag |-> "Fieldref", a |-> class_index, b |-> name_and_type_index, s |-> << >>]
CpMethodref(class_index, name_and_type_index) ==
    [tag |-> "Methodref", a |-> class_index, b |-> name_and_type_index, s |-> << >>]
CpNameAndType(name_index, descriptor_index) ==
    [tag |-> "NameAndType", a |-> name_index, b |-> descriptor_index, s |-> << >>]
CpInteger(value) == [tag |-> "Integer", a |-> value, b |-> 0, s |-> << >>]
CpFloat(value) == [tag |-> "Float", a |-> value.m, b |-> value.e, s |-> << >>]
CpLong(value) == [tag |-> "Long", a |-> value, b |-> 0, s |-> << >>]
CpDouble(value) == [tag |-> "Double", a |-> value.m, b |-> value.e, s |-> << >>]
CpPlaceholder == [tag |-> "Placeholder", a |-> 0, b |-> 0, s |-> << >>]

(* ConstantPool::add_*: the entry is pushed and its 1-based index is the   *)
(* new length; an 8-byte constant is followed by a placeholder and keeps   *)
(* the index of its first slot.                                            *)
add_entry(cp, entry) == Append(cp, entry)
(* an add_long that reserves no Placeholder *)
add_narrow(cp, entry) == Append(cp, entry)

add_wide(cp, entry) == Append(Append(cp, entry), CpPlaceholder)
index_of_last(cp) == Len(cp)
index_of_last_wide(cp) == Len(cp) - 1

(* An unguarded `entries[(index - 1) as usize]`: index 0 underflows (or    *)
(* wraps to 65535) and an index past the end is out of bounds; the thread  *)
(* panics either way.                                                      *)
IndexPanics(cp, index) == index = 0 \/ index > Len(cp)

(* A guarded `(index - 1) as usize` followed by `>= entries.len()`: with   *)
(* overflow checks index 0 panics in the subtraction, without them it      *)
(* wraps to 65535 and is out of range.                                     *)
GuardedSlot(cp, index, overflow_checks) ==
    IF index = 0 THEN (IF overflow_checks THEN "panic" ELSE "out_of_range")
    ELSE IF index > Len(cp) THEN "out_of_range"
    ELSE "in_range"

---------------------------------------------------------------------------
(* Instructions: [op, arg], op the name of the JvmInstruction variant and  *)
(* arg its immediate (0 when the variant has none).                        *)

Instr(op, arg) == [op |-> op, arg |-> arg]
Op(op) == [op |-> op, arg |-> 0]

(* MethodFrame *)
MethodFrame(locals, constant_pool, bytecode) ==
    [locals |-> locals, operand_stack |-> << >>, constant_pool |-> constant_pool,
     pc |-> 0, bytecode |-> bytecode]

(* vec![JvmValue::Int(0); max_locals] *)
ZeroLocals(max_locals) == [i \in 1..max_locals |-> JvmInt(0)]

(* MethodInfo and ClassFile of class_file_parser.rs.  `methods` is the     *)
(* HashMap from method name to MethodInfo, a function on the set of names. *)
MethodInfo(name, descriptor, bytecode, max_locals, max_stack) ==
    [name |-> name, descriptor |-> descriptor, bytecode |-> bytecode,
     max_locals |-> max_locals, max_stack |-> max_stack]

ClassFile(constant_pool, main_method_bytecode, max_locals, max_stack, methods) ==
    [constant_pool |-> constant_pool, main_method_bytecode |-> main_method_bytecode,
     max_locals |-> max_locals, max_stack |-> max_stack, methods |-> methods]

(* current_class: None *)
NoClass == [loaded |-> FALSE, class |-> ClassFile(<< >>, << >>, 0, 0, << >>)]
SomeClass(class_file) == [loaded |-> TRUE, class |-> class_file]

---------------------------------------------------------------------------
(* Method and field resolution (jvm_compatible_vm.rs).                     *)

(* The (class, name, descriptor) table of resolve_method_reference, for    *)
(* the PrintStream and Math entries that the programs of this model call.  *)
MethodTable(class_name, method_name, descriptor) ==
    CASE class_name = Str.java_io_PrintStream /\ method_name = Str.println /\ descriptor = Str.I_V
            -> "PrintStreamPrintln"
      [] class_name = Str.java_io_PrintStream /\ method_name = Str.print /\ descriptor = Str.String_V
            -> "PrintStreamPrint"
      [] class_name = Str.java_io_PrintStream /\ method_name = Str.println /\ descriptor = Str.String_V
            -> "PrintStreamPrintlnString"
      [] class_name = Str.java_io_PrintStream /\ method_name = Str.println /\ descriptor = Str.Object_V
            -> "PrintStreamPrintlnString"
      [] class_name = Str.java_io_PrintStream /\ method_name = Str.println /\ descriptor = Str.F_V
            -> "PrintStreamPrintlnFloat"
      [] class_name = Str.java_io_PrintStream /\ method_name = Str.println /\ descriptor = Str.D_V
            -> "PrintStreamPrintlnDouble"
      [] class_name = Str.java_io_PrintStream /\ method_name = Str.println /\ descriptor = Str.Z_V
            -> "PrintStreamPrintlnBoolean"
      [] class_name = Str.java_io_PrintStream /\ method_name = Str.println /\ descriptor = Str.C_V
            -> "PrintStreamPrintlnChar"
      [] class_name = Str.java_lang_Math /\ method_name = Str.random /\ descriptor = Str.void_D
            -> "MathRandom"
      [] class_name = Str.java_lang_Math /\ method_name = Str.max /\ descriptor = Str.II_I
            -> "MathMaxInt"
      [] class_name = Str.java_lang_Math /\ method_name = Str.min /\ descriptor = Str.II_I
            -> "MathMinInt"
      [] class_name = Str.java_lang_Math /\ method_name = Str.abs /\ descriptor = Str.I_I
            -> "MathAbs"
      [] class_name = Str.java_lang_StringBuilder /\ method_name = Str.toString
         /\ descriptor = Str.void_String
            -> "StringBuilderToString"
      [] class_name = Str.java_lang_Integer /\ method_name = Str.toString
         /\ descriptor = Str.I_String
            -> "IntegerToString"
      [] OTHER -> "Unknown"

PrintStreamMethods ==
    { "PrintStreamPrintln", "PrintStreamPrint", "PrintStreamPrintlnString",
      "PrintStreamPrintlnFloat", "PrintStreamPrintlnDouble",
      "PrintStreamPrintlnBoolean", "PrintStreamPrintlnChar" }

(* resolve_method_reference: the ResolvedMethod of a Methodref index, or   *)
(* "panic" where an unguarded pool access fails.                           *)
resolve_method_reference(cp, method_ref, overflow_checks) ==
    LET slot == GuardedSlot(cp, method_ref, overflow_checks)
    IN  IF slot = "panic" THEN "panic"
        ELSE IF slot = "out_of_range" THEN "Unknown"
        ELSE IF cp[method_ref].tag # "Methodref" THEN "Unknown"
        ELSE IF IndexPanics(cp, cp[method_ref].a) THEN "panic"
        ELSE IF cp[cp[method_ref].a].tag # "Class" THEN "Unknown"
        ELSE IF IndexPanics(cp, cp[cp[method_ref].a].a) THEN "panic"
        ELSE IF cp[cp[cp[method_ref].a].a].tag # "Utf8" THEN "Unknown"
        ELSE IF IndexPanics(cp, cp[method_ref].b) THEN "panic"
        ELSE IF cp[cp[method_ref].b].tag # "NameAndType" THEN "Unknown"
        ELSE LET nt == cp[cp[method_ref].b]
             IN  IF IndexPanics(cp, nt.a) \/ (overflow_checks /\ nt.b = 0) THEN "panic"
                 ELSE IF cp[nt.a].tag # "Utf8" THEN "Unknown"
                 ELSE IF IndexPanics(cp, nt.b) THEN "panic"
                 ELSE IF cp[nt.b].tag # "Utf8" THEN "Unknown"
                 ELSE MethodTable(cp[cp[cp[method_ref].a].a].s, cp[nt.a].s, cp[nt.b].s)

(* a resolution that does not look at the class name *)
resolve_method_of_any_class(cp, method_ref, current_class, overflow_checks) ==
    LET slot == GuardedSlot(cp, method_ref, overflow_checks)
        none == [k |-> "none", name |-> << >>]
        panic == [k |-> "panic", name |-> << >>]
    IN  IF slot = "panic" THEN panic
        ELSE IF slot = "out_of_range" THEN none
        ELSE IF cp[method_ref].tag # "Methodref" THEN none
        ELSE IF IndexPanics(cp, cp[method_ref].a) THEN panic
        ELSE IF cp[cp[method_ref].a].tag # "Class" THEN none
        ELSE IF IndexPanics(cp, cp[cp[method_ref].a].a) THEN panic
        ELSE IF cp[cp[cp[method_ref].a].a].tag # "Utf8" THEN none
        ELSE IF IndexPanics(cp, cp[method_ref].b) THEN panic
        ELSE IF cp[cp[method_ref].b].tag # "NameAndType" THEN none
        ELSE IF IndexPanics(cp, cp[cp[method_ref].b].a) THEN panic
        ELSE IF cp[cp[cp[method_ref].b].a].tag # "Utf8" THEN none
        ELSE LET method_name == cp[cp[cp[method_ref].b].a].s
             IN  IF current_class.loaded /\ method_name \in DOMAIN current_class.class.methods
                 THEN [k |-> "some", name |-> method_name]
                 ELSE none

(* resolve_user_method: [k, name] with k = "some" when the Methodref names *)
(* a class outside java/ and a method of the loaded class, "none" when it  *)
(* does not, "panic" where an unguarded pool access fails.                 *)
resolve_user_method(cp, method_ref, current_class, overflow_checks) ==
    LET slot == GuardedSlot(cp, method_ref, overflow_checks)
        none == [k |-> "none", name |-> << >>]
        panic == [k |-> "panic", name |-> << >>]
    IN  IF slot = "panic" THEN panic
        ELSE IF slot = "out_of_range" THEN none
        ELSE IF cp[method_ref].tag # "Methodref" THEN none
        ELSE IF IndexPanics(cp, cp[method_ref].a) THEN panic
        ELSE IF cp[cp[method_ref].a].tag # "Class" THEN none
        ELSE IF IndexPanics(cp, cp[cp[method_ref].a].a) THEN panic
        ELSE IF cp[cp[cp[method_ref].a].a].tag # "Utf8" THEN none
        ELSE IF StartsWith(cp[cp[cp[method_ref].a].a].s, Str.java_prefix) THEN none
        ELSE IF IndexPanics(cp, cp[method_ref].b) THEN panic
        ELSE IF cp[cp[method_ref].b].tag # "NameAndType" THEN none
        ELSE IF IndexPanics(cp, cp[cp[method_ref].b].a) THEN panic
        ELSE IF cp[cp[cp[method_ref].b].a].tag # "Utf8" THEN none
        ELSE LET method_name == cp[cp[cp[method_ref].b].a].s
             IN  IF current_class.loaded /\ method_name \in DOMAIN current_class.class.methods
                 THEN [k |-> "some", name |-> method_name]
                 ELSE none

(* count_method_parameters: the number of parameters a descriptor names,   *)
(* scanning its characters from position i.                                *)
PrimitiveTypeChars == { 66, 67, 68, 70, 73, 74, 83, 90 }   \* B C D F I J S Z

(* a skip that stops after one character *)
SkipOne(s, i, ch) == i + 1

RECURSIVE SkipPast(_, _, _)
SkipPast(s, i, ch) ==
    IF i > Len(s) THEN i ELSE IF s[i] = ch THEN i + 1 ELSE SkipPast(s, i + 1, ch)

RECURSIVE CountParameters(_, _)
CountParameters(s, i) ==
    IF i > Len(s) THEN 0
    ELSE IF s[i] = 41 THEN 0                                          \* ')'
    ELSE IF s[i] \in PrimitiveTypeChars THEN 1 + CountParameters(s, i + 1)
    ELSE IF s[i] = 76 THEN 1 + CountParameters(s, SkipPast(s, i + 1, 59))   \* 'L' ... ';'
    ELSE IF s[i] = 91                                                 \* '['
         THEN IF i + 1 > Len(s) THEN 0
              ELSE IF s[i + 1] \in PrimitiveTypeChars THEN 1 + CountParameters(s, i + 2)
              ELSE IF s[i + 1] = 76 THEN 1 + CountParameters(s, SkipPast(s, i + 2, 59))
              ELSE CountParameters(s, i + 2)
    ELSE CountParameters(s, i + 1)

count_method_parameters(descriptor) ==
    CountParameters(descriptor, SkipPast(descriptor, 1, 40))          \* after '('

---------------------------------------------------------------------------
(* The interpreter's objects and output.                                   *)
(*                                                                         *)
(* vm is the part of JvmCompatibleVm an instruction can change besides the *)
(* frames: [heap, string_data, next_object_id, out].  heap maps object ids *)
(* to [class_name, is_stderr, length] (-1 for a field the object lacks),   *)
(* string_data maps string ids to their text, and out is the sequence of   *)
(* writes made with print!/println!/eprint!/eprintln!, each [stream, text]. *)

PrintStreamObject(is_stderr) ==
    [class_name |-> Str.java_io_PrintStream, is_stderr |-> is_stderr, length |-> -1]

StringObject(value) ==
    [class_name |-> Str.java_lang_String, is_stderr |-> -1, length |-> Len(value)]

(* a string object stored under the id 1, whatever ids are in use *)
create_string_object_at_one(vm, value) ==
    [vm EXCEPT !.heap = (1 :> StringObject(value)) @@ @,
               !.string_data = (1 :> value) @@ @]

create_string_object(vm, value) ==
    [vm EXCEPT !.heap = (vm.next_object_id :> StringObject(value)) @@ @,
               !.string_data = (vm.next_object_id :> value) @@ @,
               !.next_object_id = @ + 1]

create_printstream_object(vm, stream_type) ==
    [vm EXCEPT !.heap = (vm.next_object_id :>
                            PrintStreamObject(IF stream_type = "stderr" THEN 1 ELSE 0)) @@ @,
               !.next_object_id = @ + 1]

(* The stream a receiver value selects: the object must be on the heap and *)
(* carry an is_stderr field.                                               *)
StreamOf(vm, ref) ==
    IF ref.t = "Reference" /\ ref.x = 1 /\ ref.v \in DOMAIN vm.heap
       /\ vm.heap[ref.v].is_stderr # -1
    THEN (IF vm.heap[ref.v].is_stderr = 1 THEN "stderr" ELSE "stdout")
    ELSE "none"

WriteTo(vm, stream, text) ==
    IF stream = "none" THEN vm
    ELSE [vm EXCEPT !.out = Append(@, [stream |-> stream, text |-> text])]

Line(text) == text \o << 10 >>

---------------------------------------------------------------------------
(* The effect of one instruction on the top frame: [err, frame, vm, ret,   *)
(* popped].  err is "" or the RuntimeError (or "panic"); frame is the top  *)
(* frame afterwards; popped says the frame was removed from the frame      *)
(* stack; ret is << v >> when execute_single_instruction returns Some(v).  *)

Done(frame, vm) == [err |-> "", frame |-> frame, vm |-> vm, ret |-> << >>, popped |-> FALSE]
Fault(kind, frame, vm) == [err |-> kind, frame |-> frame, vm |-> vm, ret |-> << >>, popped |-> FALSE]

Top(stack) == stack[Len(stack)]
Rest(stack) == SubSeq(stack, 1, Len(stack) - 1)
Depth(frame) == Len(frame.operand_stack)
Popped(frame, n) ==
    [frame EXCEPT !.operand_stack = SubSeq(@, 1, Len(@) - n)]
Pushed(frame, value) == [frame EXCEPT !.operand_stack = Append(@, value)]
Advance(frame) == [frame EXCEPT !.pc = @ + 1]

(* push a value; pc += 1 *)
PushAndAdvance(frame, vm, value) == Done(Advance(Pushed(frame, value)), vm)

(* The common prologue of the two-operand int instructions: pop b and      *)
(* coerce it, then pop a and coerce it.                                    *)
IntOperandsFault(frame) ==
    IF Depth(frame) = 0 THEN "StackUnderflow"
    ELSE IF ~IsIntCoercible(Top(frame.operand_stack)) THEN "InvalidStackState"
    ELSE IF Depth(frame) = 1 THEN "StackUnderflow"
    ELSE IF ~IsIntCoercible(frame.operand_stack[Depth(frame) - 1]) THEN "InvalidStackState"
    ELSE ""

(* How many values the prologue has popped when it fails. *)
IntOperandsTaken(frame) ==
    IF Depth(frame) = 0 THEN 0
    ELSE IF ~IsIntCoercible(Top(frame.operand_stack)) THEN 1
    ELSE IF Depth(frame) = 1 THEN 1
    ELSE 2

(* A division that answers a zero divisor with the value 0 and goes on:    *)
(* the division property has to tell it from the code's.                   *)
DivisionPushesZero(frame, vm) == PushAndAdvance(frame, vm, JvmInt(0))

(* `return Err(RuntimeError::DivisionByZero)`: both operands are popped,    *)
(* nothing is pushed and pc stays.                                         *)
DivisionByZero(frame, vm) == Fault("DivisionByZero", frame, vm)

(* Iadd, Isub, Imul: `a + b`, `a - b`, `a * b` on i32 panic on overflow    *)
(* when the build checks overflow and wrap when it does not.  Idiv, Irem:  *)
(* zero divisor is DivisionByZero; i32::MIN by -1 panics in every build.   *)
IntArithmetic(op, frame, vm, overflow_checks) ==
    LET b == as_int(Top(frame.operand_stack))
        a == as_int(frame.operand_stack[Depth(frame) - 1])
        after == Popped(frame, 2)
        overflows == CASE op = "Iadd" -> AddOverflows(a, b)
                       [] op = "Isub" -> SubOverflows(a, b)
                       [] op = "Imul" -> MulOverflows(a, b)
                       [] OTHER -> a = i32_MIN /\ b = -1
        result == CASE op = "Iadd" -> WrappingAdd(a, b)
                    [] op = "Isub" -> WrappingSub(a, b)
                    [] op = "Imul" -> WrappingMul(a, b)
                    [] op = "Idiv" -> TruncDiv(a, b)
                    [] OTHER -> TruncRem(a, b)
    IN  IF IntOperandsFault(frame) # ""
        THEN Fault(IntOperandsFault(frame), Popped(frame, IntOperandsTaken(frame)), vm)
        ELSE IF op \in {"Idiv", "Irem"} /\ b = 0 THEN DivisionByZero(after, vm)
        ELSE IF overflows /\ (overflow_checks \/ op \in {"Idiv", "Irem"})
             THEN Fault("panic", after, vm)
        ELSE PushAndAdvance(after, vm, JvmInt(result))

(* Dadd, Dsub, Dmul, Ddiv: both operands are popped, then both must be     *)
(* Double.                                                                 *)
DoubleArithmetic(op, frame, vm) ==
    LET b == Top(frame.operand_stack)
        a == frame.operand_stack[Depth(frame) - 1]
        after == Popped(frame, 2)
        result == CASE op = "Dadd" -> DoubleAdd(DoubleOf(a), DoubleOf(b))
                    [] op = "Dsub" -> DoubleSub(DoubleOf(a), DoubleOf(b))
                    [] op = "Dmul" -> DoubleMul(DoubleOf(a), DoubleOf(b))
                    [] OTHER -> DoubleDiv(DoubleOf(a), DoubleOf(b))
    IN  IF Depth(frame) < 2 THEN Fault("StackUnderflow", Popped(frame, Depth(frame)), vm)
        ELSE IF a.t # "Double" \/ b.t # "Double" THEN Fault("InvalidStackState", after, vm)
        ELSE IF op = "Ddiv" /\ b.v = 0 THEN DivisionByZero(after, vm)
        ELSE PushAndAdvance(after, vm, JvmDouble(result))

(* A comparison table in which Ifgt also branches on zero: the branch      *)
(* property has to tell it from the table of the code.                     *)
BranchTakenOnZero(op, value) ==
    CASE op = "Ifeq" -> value = 0
      [] op = "Ifne" -> value # 0
      [] op = "Iflt" -> value < 0
      [] op = "Ifge" -> value >= 0
      [] op = "Ifgt" -> value >= 0
      [] OTHER -> value <= 0

(* Ifeq .. Ifle: pop, coerce, compare with zero, branch or fall through. *)
BranchTaken(op, value) ==
    CASE op = "Ifeq" -> value = 0
      [] op = "Ifne" -> value # 0
      [] op = "Iflt" -> value < 0
      [] op = "Ifge" -> value >= 0
      [] op = "Ifgt" -> value > 0
      [] OTHER -> value <= 0

ConditionalBranch(ins, frame, vm) ==
    IF Depth(frame) = 0 THEN Fault("StackUnderflow", frame, vm)
    ELSE IF ~IsIntCoercible(Top(frame.operand_stack))
         THEN Fault("InvalidStackState", Popped(frame, 1), vm)
    ELSE IF BranchTaken(ins.op, as_int(Top(frame.operand_stack)))
         THEN Done([Popped(frame, 1) EXCEPT !.pc = ins.arg], vm)
         ELSE Done(Advance(Popped(frame, 1)), vm)

(* The local variable an instruction names, and the value a store fills    *)
(* the locals with when it has to grow them.                               *)
LoadOps ==
    { "Iload", "Iload0", "Iload1", "Iload2", "Iload3",
      "Aload", "Aload0", "Aload1", "Aload2", "Aload3",
      "Dload", "Dload0", "Dload1", "Dload2", "Dload3",
      "Lload", "Lload0", "Lload1", "Lload2", "Lload3" }

StoreOps ==
    { "Istore", "Istore0", "Istore1", "Istore2", "Istore3",
      "Astore", "Astore0", "Astore1", "Astore2", "Astore3",
      "Dstore", "Dstore0", "Dstore1", "Dstore2", "Dstore3",
      "Lstore", "Lstore0", "Lstore1", "Lstore2", "Lstore3" }

LocalIndex(ins) ==
    CASE ins.op \in {"Iload", "Aload", "Dload", "Lload",
                     "Istore", "Astore", "Dstore", "Lstore"} -> ins.arg
      [] ins.op \in {"Iload0", "Aload0", "Dload0", "Lload0",
                     "Istore0", "Astore0", "Dstore0", "Lstore0"} -> 0
      [] ins.op \in {"Iload1", "Aload1", "Dload1", "Lload1",
                     "Istore1", "Astore1", "Dstore1", "Lstore1"} -> 1
      [] ins.op \in {"Iload2", "Aload2", "Dload2", "Lload2",
                     "Istore2", "Astore2", "Dstore2", "Lstore2"} -> 2
      [] OTHER -> 3

(* every new slot an Int(0) *)
StoreFillInt(op) == JvmInt(0)

StoreFill(op) ==
    CASE op \in {"Istore", "Istore0", "Istore1", "Istore2", "Istore3"} -> JvmInt(0)
      [] op \in {"Astore", "Astore0", "Astore1", "Astore2", "Astore3"} -> JvmNull
      [] op \in {"Dstore", "Dstore0", "Dstore1", "Dstore2", "Dstore3"} -> JvmDouble([m |-> 0, e |-> 0])
      [] OTHER -> JvmLong(0)

Load(ins, frame, vm) ==
    IF LocalIndex(ins) >= Len(frame.locals) THEN Fault("InvalidStackState", frame, vm)
    ELSE PushAndAdvance(frame, vm, frame.locals[LocalIndex(ins) + 1])

Store(ins, frame, vm) ==
    LET k == LocalIndex(ins)
        grown == [i \in 1..(IF k >= Len(frame.locals) THEN k + 1 ELSE Len(frame.locals)) |->
                    IF i <= Len(frame.locals) THEN frame.locals[i] ELSE StoreFill(ins.op)]
    IN  IF Depth(frame) = 0 THEN Fault("StackUnderflow", frame, vm)
        ELSE Done(Advance([Popped(frame, 1) EXCEPT
                              !.locals = [grown EXCEPT ![k + 1] = Top(frame.operand_stack)]]), vm)

(* load_constant_from_pool: [err, value, vm]; a String entry allocates a   *)
(* string object for the text of its Utf8 entry.                           *)
load_constant_from_pool(cp, index, vm, overflow_checks) ==
    LET slot == GuardedSlot(cp, index, overflow_checks)
        fails(kind) == [err |-> kind, value |-> JvmNull, vm |-> vm]
        gives(value) == [err |-> "", value |-> value, vm |-> vm]
    IN  IF slot = "panic" THEN fails("panic")
        ELSE IF slot = "out_of_range" THEN fails("InvalidStackState")
        ELSE CASE cp[index].tag = "Integer" -> gives(JvmInt(cp[index].a))
               [] cp[index].tag = "Float" -> gives(JvmFloat([m |-> cp[index].a, e |-> cp[index].b]))
               [] cp[index].tag = "Long" -> gives(JvmLong(cp[index].a))
               [] cp[index].tag = "Double" -> gives(JvmDouble([m |-> cp[index].a, e |-> cp[index].b]))
               [] cp[index].tag = "String" ->
                    IF IndexPanics(cp, cp[index].a) THEN fails("panic")
                    ELSE IF cp[cp[index].a].tag # "Utf8" THEN fails("InvalidStackState")
                    ELSE [err |-> "", value |-> JvmReference(vm.next_object_id),
                          vm |-> create_string_object(vm, cp[cp[index].a].s)]
               [] OTHER -> fails("InvalidStackState")

(* Ldc, Ldc2W *)
LoadConstant(ins, frame, vm, overflow_checks) ==
    LET loaded == load_constant_from_pool(frame.constant_pool, ins.arg, vm, overflow_checks)
    IN  IF loaded.err # "" THEN Fault(loaded.err, frame, vm)
        ELSE PushAndAdvance(frame, loaded.vm, loaded.value)

(* resolve_static_field_numeric: the fixed indices of the generated pool. *)
resolve_static_field_numeric(field_ref) ==
    CASE field_ref = 31 -> "stdout"
      [] field_ref = 32 -> "stderr"
      [] OTHER -> "InvalidStackState"

(* resolve_static_field: "stdout", "stderr", an error or "panic". *)
resolve_static_field(cp, field_ref, overflow_checks) ==
    LET slot == GuardedSlot(cp, field_ref, overflow_checks)
        numeric == resolve_static_field_numeric(field_ref)
    IN  IF slot = "panic" THEN "panic"
        ELSE IF slot = "out_of_range" THEN numeric
        ELSE IF cp[field_ref].tag # "Fieldref" THEN numeric
        ELSE IF IndexPanics(cp, cp[field_ref].a) THEN "panic"
        ELSE IF cp[cp[field_ref].a].tag # "Class" THEN numeric
        ELSE IF IndexPanics(cp, cp[cp[field_ref].a].a) THEN "panic"
        ELSE IF cp[cp[cp[field_ref].a].a].tag # "Utf8" THEN numeric
        ELSE IF IndexPanics(cp, cp[field_ref].b) THEN "panic"
        ELSE IF cp[cp[field_ref].b].tag # "NameAndType" THEN numeric
        ELSE IF IndexPanics(cp, cp[cp[field_ref].b].a) THEN "panic"
        ELSE IF cp[cp[cp[field_ref].b].a].tag # "Utf8" THEN numeric
        ELSE IF cp[cp[cp[field_ref].a].a].s = Str.java_lang_System
                /\ cp[cp[cp[field_ref].b].a].s = Str.out THEN "stdout"
        ELSE IF cp[cp[cp[field_ref].a].a].s = Str.java_lang_System
                /\ cp[cp[cp[field_ref].b].a].s = Str.err THEN "stderr"
        ELSE numeric

(* Getstatic: a new PrintStream object for every access. *)
Getstatic(ins, frame, vm, overflow_checks) ==
    LET field == resolve_static_field(frame.constant_pool, ins.arg, overflow_checks)
    IN  IF field \in {"stdout", "stderr"}
        THEN PushAndAdvance(frame, create_printstream_object(vm, field),
                            JvmReference(vm.next_object_id))
        ELSE Fault(field, frame, vm)

(* The text a typed println writes for its argument, << >> as the first    *)
(* element when the argument has no such conversion.                       *)
TypedText(kind, value) ==
    CASE kind = "PrintStreamPrintlnFloat" /\ value.t \in {"Float", "Double"}
            -> << TRUE, DoubleToString(DoubleOf(value)) >>
      [] kind = "PrintStreamPrintlnFloat" /\ value.t = "Int"
            -> << TRUE, DoubleToString(IntToDouble(value.v)) >>
      [] kind = "PrintStreamPrintlnDouble" /\ value.t \in {"Float", "Double"}
            -> << TRUE, DoubleToString(DoubleOf(value)) >>
      [] kind = "PrintStreamPrintlnDouble" /\ value.t = "Int"
            -> << TRUE, DoubleToString(IntToDouble(value.v)) >>
      [] kind = "PrintStreamPrintlnBoolean" /\ value.t = "Boolean"
            -> << TRUE, IF value.v = 1 THEN Str.true ELSE Str.false >>
      [] kind = "PrintStreamPrintlnBoolean" /\ value.t = "Int"
            -> << TRUE, IF value.v # 0 THEN Str.true ELSE Str.false >>
      [] kind = "PrintStreamPrintlnChar" /\ value.t \in {"Char", "Int"}
            -> << TRUE, CharToString(value.v) >>
      [] OTHER -> << FALSE, << >> >>

(* invoke_virtual_method, without the pc += 1 of the Invokevirtual arm.    *)
(* kind is the resolved method, or the numeric fallback 33, 34, 35 of an   *)
(* unresolved reference.                                                   *)
invoke_virtual_method(method_ref, frame, vm, overflow_checks) ==
    LET resolved == resolve_method_reference(frame.constant_pool, method_ref, overflow_checks)
        kind == IF resolved # "Unknown" THEN resolved
                ELSE CASE method_ref = 33 -> "Fallback33"
                       [] method_ref = 34 -> "PrintStreamPrint"
                       [] method_ref = 35 -> "PrintStreamPrintlnString"
                       [] OTHER -> "Unknown"
        value == Top(frame.operand_stack)
        receiver == frame.operand_stack[Depth(frame) - 1]
        after == Popped(frame, 2)
        stream == StreamOf(vm, receiver)
        has_text == value.t = "Reference" /\ value.x = 1 /\ receiver.t = "Reference"
                    /\ receiver.x = 1 /\ value.v \in DOMAIN vm.string_data
    IN  IF resolved = "panic" THEN Fault("panic", frame, vm)
        ELSE IF kind = "StringBuilderToString"
             THEN (IF Depth(frame) = 0 THEN Fault("StackUnderflow", frame, vm)
                   ELSE Done(Pushed(Popped(frame, 1), JvmReference(1)), vm))
        ELSE IF kind \notin PrintStreamMethods \cup {"Fallback33"}
             THEN Fault("InvalidStackState", frame, vm)
        ELSE IF Depth(frame) = 0 THEN Fault("StackUnderflow", frame, vm)
        ELSE IF kind = "Fallback33" /\ ~IsIntCoercible(value)
             THEN Fault("InvalidStackState", Popped(frame, 1), vm)
        ELSE IF Depth(frame) = 1 THEN Fault("StackUnderflow", Popped(frame, 1), vm)
        ELSE CASE kind = "PrintStreamPrintln" ->
                    Done(after, WriteTo(vm, stream, Line(ValueToString(value))))
               [] kind = "Fallback33" ->
                    Done(after, WriteTo(vm, stream, Line(IntToString(as_int(value)))))
               [] kind = "PrintStreamPrint" ->
                    Done(after, IF has_text
                                THEN WriteTo(vm, stream, vm.string_data[value.v])
                                ELSE vm)
               [] kind = "PrintStreamPrintlnString" ->
                    Done(after, IF has_text
                                THEN WriteTo(vm, stream, Line(vm.string_data[value.v]))
                                ELSE vm)
               [] OTHER ->
                    IF stream = "none" THEN Done(after, vm)
                    ELSE IF ~TypedText(kind, value)[1] THEN Fault("InvalidStackState", after, vm)
                    ELSE Done(after, WriteTo(vm, stream, Line(TypedText(kind, value)[2])))

(* invoke_special_method: one value is dropped when there is one. *)
invoke_special_method(frame, vm) ==
    Done(IF Depth(frame) = 0 THEN frame ELSE Popped(frame, 1), vm)

(* invoke_dynamic_method: one value, when there is one, is replaced by the *)
(* placeholder reference Some(0).                                          *)
invoke_dynamic_method(frame, vm) ==
    Done(IF Depth(frame) = 0 THEN frame ELSE Pushed(Popped(frame, 1), JvmReference(0)), vm)

(* invoke_static_method for a reference that names no user method: the    *)
(* Math intrinsics, the numeric fallback 36, an error for the rest.        *)
invoke_static_intrinsic(method_ref, frame, vm, overflow_checks, random_value) ==
    LET resolved == resolve_method_reference(frame.constant_pool, method_ref, overflow_checks)
        kind == IF resolved = "Unknown" /\ method_ref = 36 THEN "MathRandom" ELSE resolved
        b == as_int(Top(frame.operand_stack))
        a == as_int(frame.operand_stack[Depth(frame) - 1])
    IN  CASE kind = "panic" -> Fault("panic", frame, vm)
          [] kind = "MathRandom" -> Done(Pushed(frame, JvmDouble(random_value)), vm)
          [] kind \in {"MathMaxInt", "MathMinInt"} ->
                IF IntOperandsFault(frame) # ""
                THEN Fault(IntOperandsFault(frame), Popped(frame, IntOperandsTaken(frame)), vm)
                ELSE Done(Pushed(Popped(frame, 2),
                                 JvmInt(IF kind = "MathMaxInt"
                                        THEN (IF a > b THEN a ELSE b)
                                        ELSE (IF a < b THEN a ELSE b))), vm)
          [] kind = "MathAbs" ->
                IF Depth(frame) = 0 THEN Fault("StackUnderflow", frame, vm)
                ELSE IF ~IsIntCoercible(Top(frame.operand_stack))
                     THEN Fault("InvalidStackState", Popped(frame, 1), vm)
                ELSE IF b = i32_MIN
                     THEN (IF overflow_checks THEN Fault("panic", Popped(frame, 1), vm)
                           ELSE Done(Pushed(Popped(frame, 1), JvmInt(i32_MIN)), vm))
                ELSE Done(Pushed(Popped(frame, 1), JvmInt(Abs(b))), vm)
          [] kind = "IntegerToString" ->
                IF Depth(frame) = 0 THEN Fault("StackUnderflow", frame, vm)
                ELSE IF ~IsIntCoercible(Top(frame.operand_stack))
                     THEN Fault("InvalidStackState", Popped(frame, 1), vm)
                ELSE Done(Pushed(Popped(frame, 1), JvmReference(vm.next_object_id)),
                          create_string_object(vm, IntToString(b)))
          [] OTHER -> Fault("InvalidStackState", frame, vm)

(* The arm of an Invoke* instruction: the call, then pc += 1. *)
ThenAdvance(effect) ==
    IF effect.err # "" THEN effect ELSE [effect EXCEPT !.frame = Advance(@)]

---------------------------------------------------------------------------
(* execute_single_instruction: the arm of each instruction, applied to the *)
(* top frame.  An Invokestatic of a user method is not an effect on one    *)
(* frame and is the action InvokeUserMethod below.                         *)

ConstantOps ==
    { "IconstM1", "Iconst0", "Iconst1", "Iconst2", "Iconst3", "Iconst4", "Iconst5",
      "Lconst0", "Lconst1", "Bipush", "Sipush", "Dconst0", "Dconst1" }

ConstantValue(ins) ==
    CASE ins.op = "IconstM1" -> JvmInt(-1)
      [] ins.op = "Iconst0" -> JvmInt(0)
      [] ins.op = "Iconst1" -> JvmInt(1)
      [] ins.op = "Iconst2" -> JvmInt(2)
      [] ins.op = "Iconst3" -> JvmInt(3)
      [] ins.op = "Iconst4" -> JvmInt(4)
      [] ins.op = "Iconst5" -> JvmInt(5)
      [] ins.op = "Lconst0" -> JvmLong(0)
      [] ins.op = "Lconst1" -> JvmLong(1)
      [] ins.op = "Dconst0" -> JvmDouble([m |-> 0, e |-> 0])
      [] ins.op = "Dconst1" -> JvmDouble([m |-> 1, e |-> 0])
      [] OTHER -> JvmInt(ins.arg)                       \* Bipush, Sipush

BranchOps == { "Ifeq", "Ifne", "Iflt", "Ifge", "Ifgt", "Ifle" }

(* The instructions execute_single_instruction has an arm for. *)
ExecutableOps ==
    ConstantOps \cup BranchOps \cup LoadOps \cup StoreOps \cup
    { "Ldc", "Ldc2W", "Pop", "Dup", "Swap", "Iadd", "Isub", "Imul", "Idiv", "Irem",
      "Dadd", "Dsub", "Dmul", "Ddiv", "I2d", "D2i", "Goto", "Return", "Ireturn",
      "New", "Getstatic", "Invokevirtual", "Invokespecial", "Invokestatic",
      "Invokedynamic" }

ExecuteInstruction(ins, frame, vm, current_class, overflow_checks, random_value) ==
    CASE ins.op \in ConstantOps -> PushAndAdvance(frame, vm, ConstantValue(ins))
      [] ins.op \in {"Ldc", "Ldc2W"} -> LoadConstant(ins, frame, vm, overflow_checks)
      [] ins.op = "Pop" ->
            IF Depth(frame) = 0 THEN Fault("StackUnderflow", frame, vm)
            ELSE Done(Advance(Popped(frame, 1)), vm)
      [] ins.op = "Dup" ->
            IF Depth(frame) = 0 THEN Fault("StackUnderflow", frame, vm)
            ELSE PushAndAdvance(frame, vm, Top(frame.operand_stack))
      [] ins.op = "Swap" ->
            IF Depth(frame) < 2 THEN Fault("StackUnderflow", frame, vm)
            ELSE Done(Advance(Pushed(Pushed(Popped(frame, 2), Top(frame.operand_stack)),
                                     frame.operand_stack[Depth(frame) - 1])), vm)
      [] ins.op \in {"Iadd", "Isub", "Imul", "Idiv", "Irem"} ->
            IntArithmetic(ins.op, frame, vm, overflow_checks)
      [] ins.op \in {"Dadd", "Dsub", "Dmul", "Ddiv"} -> DoubleArithmetic(ins.op, frame, vm)
      [] ins.op = "I2d" ->
            IF Depth(frame) = 0 THEN Fault("StackUnderflow", frame, vm)
            ELSE IF ~IsIntCoercible(Top(frame.operand_stack))
                 THEN Fault("InvalidStackState", Popped(frame, 1), vm)
            ELSE PushAndAdvance(Popped(frame, 1), vm,
                                JvmDouble(IntToDouble(as_int(Top(frame.operand_stack)))))
      [] ins.op = "D2i" ->
            IF Depth(frame) = 0 THEN Fault("StackUnderflow", frame, vm)
            ELSE IF Top(frame.operand_stack).t # "Double"
                 THEN Fault("InvalidStackState", Popped(frame, 1), vm)
            ELSE PushAndAdvance(Popped(frame, 1), vm,
                                JvmInt(DoubleToInt(DoubleOf(Top(frame.operand_stack)))))
      [] ins.op = "Goto" -> Done([frame EXCEPT !.pc = ins.arg], vm)
      [] ins.op \in BranchOps -> ConditionalBranch(ins, frame, vm)
      [] ins.op = "Return" -> [Done(frame, vm) EXCEPT !.popped = TRUE]
      [] ins.op = "Ireturn" ->
            IF Depth(frame) = 0 THEN Fault("StackUnderflow", frame, vm)
            ELSE [Done(Popped(frame, 1), vm) EXCEPT
                     !.popped = TRUE, !.ret = << Top(frame.operand_stack) >>]
      [] ins.op = "New" -> PushAndAdvance(frame, vm, JvmReference(0))
      [] ins.op = "Getstatic" -> Getstatic(ins, frame, vm, overflow_checks)
      [] ins.op = "Invokevirtual" ->
            ThenAdvance(invoke_virtual_method(ins.arg, frame, vm, overflow_checks))
      [] ins.op = "Invokespecial" -> ThenAdvance(invoke_special_method(frame, vm))
      [] ins.op = "Invokestatic" ->
            IF resolve_user_method(frame.constant_pool, ins.arg, current_class,
                                   overflow_checks).k = "panic"
            THEN Fault("panic", frame, vm)
            ELSE ThenAdvance(invoke_static_intrinsic(ins.arg, frame, vm, overflow_checks,
                                                     random_value))
      [] ins.op = "Invokedynamic" -> ThenAdvance(invoke_dynamic_method(frame, vm))
      [] ins.op \in LoadOps -> Load(ins, frame, vm)
      [] OTHER -> Store(ins, frame, vm)

(* Whether Math.random is what the instruction calls. *)
DrawsRandom(ins, frame, current_class, overflow_checks) ==
    /\ ins.op = "Invokestatic"
    /\ resolve_user_method(frame.constant_pool, ins.arg, current_class, overflow_checks).k = "none"
    /\ \/ resolve_method_reference(frame.constant_pool, ins.arg, overflow_checks) = "MathRandom"
       \/ /\ resolve_method_reference(frame.constant_pool, ins.arg, overflow_checks) = "Unknown"
          /\ ins.arg = 36

---------------------------------------------------------------------------
(* Big-endian encodings (to_be_bytes) and their inverses (from_be_bytes).  *)

U16Bytes(n) == << (n \div 256) % 256, n % 256 >>
U32Bytes(n) == << n \div 16777216, (n \div 65536) % 256, (n \div 256) % 256, n % 256 >>
I32Bytes(i) == << Bytes32(i)[4], Bytes32(i)[3], Bytes32(i)[2], Bytes32(i)[1] >>
(* The model's longs are the i64 values of the i32 range. *)
I64Bytes(l) ==
    (IF l < 0 THEN << 255, 255, 255, 255 >> ELSE << 0, 0, 0, 0 >>) \o I32Bytes(l)

RECURSIVE BitsToNat(_)
BitsToNat(bits) ==
    IF bits = << >> THEN 0 ELSE 2 * BitsToNat(Rest(bits)) + Top(bits)

BitsToBytes(bits) ==
    [k \in 1..(Len(bits) \div 8) |-> BitsToNat(SubSeq(bits, 8 * k - 7, 8 * k))]

BytesToBits(bytes) ==
    [i \in 1..(8 * Len(bytes)) |-> (bytes[((i - 1) \div 8) + 1] \div Pow2(7 - ((i - 1) % 8))) % 2]

(* IEEE 754 binary layout of m * 2^e: sign, biased exponent, fraction. *)
FloatBytes(d, exp_bits, frac_bits, bias) ==
    LET n == Abs(d.m)
        len == BitLen(n)
        biased == IF n = 0 THEN 0 ELSE d.e + (len - 1) + bias
    IN  BitsToBytes(
            << IF d.m < 0 THEN 1 ELSE 0 >>
            \o [i \in 1..exp_bits |-> (biased \div Pow2(exp_bits - i)) % 2]
            \o [i \in 1..frac_bits |->
                    IF n # 0 /\ i <= len - 1 THEN (n \div Pow2(len - 1 - i)) % 2 ELSE 0])

F32Bytes(f) == FloatBytes(f, 8, 23, 127)
F64Bytes(d) == FloatBytes(d, 11, 52, 1023)

(* The inverse: the value of the bits, rounded to the model's significand. *)
RECURSIVE LastOne(_)
LastOne(bits) ==
    IF bits = << >> THEN 0 ELSE IF Top(bits) = 1 THEN Len(bits) ELSE LastOne(Rest(bits))

BytesToFloat(bytes, exp_bits, frac_bits, bias) ==
    LET bits == BytesToBits(bytes)
        biased == BitsToNat(SubSeq(bits, 2, 1 + exp_bits))
        frac == SubSeq(bits, 2 + exp_bits, 1 + exp_bits + frac_bits)
        k == LastOne(frac)
        kept == IF k <= 29 THEN k ELSE 29
        n == 2 * (Pow2(kept) + BitsToNat(SubSeq(frac, 1, kept))) + (IF k > kept THEN 1 ELSE 0)
        sgn == IF bits[1] = 1 THEN -1 ELSE 1
    IN  IF biased = 0 THEN [m |-> 0, e |-> 0]
        ELSE RoundToNearestEven(sgn * n, biased - bias - kept - 1)

---------------------------------------------------------------------------
(* Dice bytecode generator and class writer (java_class_generator.rs).     *)

(* setup_constant_pool: the 35 entries, in the order of the add_* calls.   *)
setup_constant_pool(class_name) ==
    << CpUtf8(class_name),              \*  1
       CpUtf8(Str.java_lang_Object),    \*  2
       CpUtf8(Str.main),                \*  3
       CpUtf8(Str.main_descriptor),     \*  4
       CpUtf8(Str.Code),                \*  5
       CpUtf8(Str.java_lang_System),    \*  6
       CpUtf8(Str.out),                 \*  7
       CpUtf8(Str.err),                 \*  8
       CpUtf8(Str.PrintStream_type),    \*  9
       CpUtf8(Str.java_io_PrintStream), \* 10
       CpUtf8(Str.println),             \* 11
       CpUtf8(Str.I_V),                 \* 12
       CpUtf8(Str.java_lang_Math),      \* 13
       CpUtf8(Str.random),              \* 14
       CpUtf8(Str.void_D),              \* 15
       CpUtf8(Str.Total),               \* 16
       CpUtf8(Str.print),               \* 17
       CpUtf8(Str.String_V),            \* 18
       CpClass(1),                      \* 19  this class
       CpClass(2),                      \* 20  Object
       CpClass(6),                      \* 21  System
       CpClass(10),                     \* 22  PrintStream
       CpClass(13),                     \* 23  Math
       CpString(16),                    \* 24  "Total: "
       CpNameAndType(3, 4),             \* 25  main
       CpNameAndType(7, 9),             \* 26  out
       CpNameAndType(8, 9),             \* 27  err
       CpNameAndType(11, 12),           \* 28  println (I)V
       CpNameAndType(17, 18),           \* 29  print (Ljava/lang/String;)V
       CpNameAndType(14, 15),           \* 30  random ()D
       CpFieldref(21, 26),              \* 31  System.out
       CpFieldref(21, 27),              \* 32  System.err
       CpMethodref(22, 28),             \* 33  PrintStream.println(I)V
       CpMethodref(22, 29),             \* 34  PrintStream.print(String)V
       CpMethodref(23, 30) >>           \* 35  Math.random()D

(* push_int_constant: the shortest push, nothing outside the i16 range. *)
push_int_constant(value) ==
    CASE value = -1 -> << Op("IconstM1") >>
      [] value = 0 -> << Op("Iconst0") >>
      [] value = 1 -> << Op("Iconst1") >>
      [] value = 2 -> << Op("Iconst2") >>
      [] value = 3 -> << Op("Iconst3") >>
      [] value = 4 -> << Op("Iconst4") >>
      [] value = 5 -> << Op("Iconst5") >>
      [] value \notin -1..5 /\ value \in -128..127 -> << Instr("Bipush", value) >>
      [] value \notin -128..127 /\ value \in -32768..32767 -> << Instr("Sipush", value) >>
      [] OTHER -> << >>

(* push_double_constant(faces as f64) *)
push_double_constant(faces) ==
    CASE faces = 0 -> << Op("Dconst0") >>
      [] faces = 1 -> << Op("Dconst1") >>
      [] OTHER -> push_int_constant(faces) \o << Op("I2d") >>

(* Math.random() * faces + 1, truncated to int *)
RollInstructions(faces) ==
    << Instr("Invokestatic", 35) >> \o push_double_constant(faces)
    \o << Op("Dmul"), Op("Dconst1"), Op("Dadd"), Op("D2i") >>

generate_single_dice(faces) ==
    RollInstructions(faces)
    \o << Instr("Getstatic", 31), Op("Swap"), Instr("Invokevirtual", 33) >>

RECURSIVE RollAndAdd(_, _)
RollAndAdd(count, faces) ==
    IF count = 0 THEN << >>
    ELSE RollInstructions(faces)
         \o << Op("Dup"), Instr("Getstatic", 31), Op("Swap"), Instr("Invokevirtual", 33),
               Op("Iadd") >>
         \o RollAndAdd(count - 1, faces)

(* the multi-die program without the Pop that removes the duplicated total *)
generate_multiple_dice_without_pop(count, faces) ==
    << Op("Iconst0") >> \o RollAndAdd(count, faces)
    \o << Op("Dup"), Instr("Getstatic", 32), Instr("Ldc", 24), Instr("Invokevirtual", 34),
          Instr("Getstatic", 32), Op("Swap"), Instr("Invokevirtual", 33) >>

generate_multiple_dice(count, faces) ==
    << Op("Iconst0") >> \o RollAndAdd(count, faces)
    \o << Op("Dup"), Instr("Getstatic", 32), Instr("Ldc", 24), Instr("Invokevirtual", 34),
          Instr("Getstatic", 32), Op("Swap"), Instr("Invokevirtual", 33), Op("Pop") >>

generate_dice_bytecode(count, faces) ==
    (IF count = 1 THEN generate_single_dice(faces) ELSE generate_multiple_dice(count, faces))
    \o << Op("Return") >>

(* instructions_to_bytes: one instruction; everything the writer has no    *)
(* arm for becomes the single byte 0x00.                                   *)
InstructionBytes(ins) ==
    CASE ins.op = "Iconst0" -> << 3 >>
      [] ins.op = "Iconst1" -> << 4 >>
      [] ins.op = "Iconst2" -> << 5 >>
      [] ins.op = "Iconst3" -> << 6 >>
      [] ins.op = "Iconst4" -> << 7 >>
      [] ins.op = "Iconst5" -> << 8 >>
      [] ins.op = "IconstM1" -> << 2 >>
      [] ins.op = "Bipush" -> << 16, ins.arg % 256 >>                 \* value as u8
      [] ins.op = "Sipush" -> << 17 >> \o U16Bytes(ins.arg % 65536)   \* value as u16
      [] ins.op = "Ldc" -> << 18, ins.arg % 256 >>                    \* index as u8
      [] ins.op = "Dup" -> << 89 >>
      [] ins.op = "Pop" -> << 87 >>
      [] ins.op = "Swap" -> << 95 >>
      [] ins.op = "Iadd" -> << 96 >>
      [] ins.op = "Isub" -> << 100 >>
      [] ins.op = "Imul" -> << 104 >>
      [] ins.op = "Idiv" -> << 108 >>
      [] ins.op = "Irem" -> << 112 >>
      [] ins.op = "Dadd" -> << 99 >>
      [] ins.op = "Dsub" -> << 103 >>
      [] ins.op = "Dmul" -> << 107 >>
      [] ins.op = "Ddiv" -> << 111 >>
      [] ins.op = "I2d" -> << 135 >>
      [] ins.op = "D2i" -> << 142 >>
      [] ins.op = "Dconst0" -> << 14 >>
      [] ins.op = "Dconst1" -> << 15 >>
      [] ins.op = "Getstatic" -> << 178 >> \o U16Bytes(ins.arg)
      [] ins.op = "Invokestatic" -> << 184 >> \o U16Bytes(ins.arg)
      [] ins.op = "Invokevirtual" -> << 182 >> \o U16Bytes(ins.arg)
      [] ins.op = "Return" -> << 177 >>
      [] ins.op = "Ireturn" -> << 172 >>
      [] OTHER -> << 0 >>                                             \* Nop and the rest

instructions_to_bytes(instructions) ==
    Concat([i \in 1..Len(instructions) |-> InstructionBytes(instructions[i])])

(* The instructions instructions_to_bytes has an arm for. *)
WriterSupportedOps ==
    { "Iconst0", "Iconst1", "Iconst2", "Iconst3", "Iconst4", "Iconst5", "IconstM1",
      "Bipush", "Sipush", "Ldc", "Dup", "Pop", "Swap", "Iadd", "Isub", "Imul", "Idiv",
      "Irem", "Dadd", "Dsub", "Dmul", "Ddiv", "I2d", "D2i", "Dconst0", "Dconst1",
      "Getstatic", "Invokestatic", "Invokevirtual", "Return", "Ireturn", "Nop" }

(* write_constant_pool: one entry; a placeholder writes nothing. *)
EntryBytes(entry) ==
    CASE entry.tag = "Utf8" -> << 1 >> \o U16Bytes(Len(entry.s) % 65536) \o entry.s
      [] entry.tag = "Class" -> << 7 >> \o U16Bytes(entry.a)
      [] entry.tag = "String" -> << 8 >> \o U16Bytes(entry.a)
      [] entry.tag = "Fieldref" -> << 9 >> \o U16Bytes(entry.a) \o U16Bytes(entry.b)
      [] entry.tag = "Methodref" -> << 10 >> \o U16Bytes(entry.a) \o U16Bytes(entry.b)
      [] entry.tag = "NameAndType" -> << 12 >> \o U16Bytes(entry.a) \o U16Bytes(entry.b)
      [] entry.tag = "Integer" -> << 3 >> \o I32Bytes(entry.a)
      [] entry.tag = "Float" -> << 4 >> \o F32Bytes([m |-> entry.a, e |-> entry.b])
      [] entry.tag = "Long" -> << 5 >> \o I64Bytes(entry.a)
      [] entry.tag = "Double" -> << 6 >> \o F64Bytes([m |-> entry.a, e |-> entry.b])
      [] OTHER -> << >>

write_constant_pool(cp) == Concat([i \in 1..Len(cp) |-> EntryBytes(cp[i])])

(* write_main_method: public static main, one Code attribute. *)
write_main_method(instructions) ==
    LET code_bytes == instructions_to_bytes(instructions)
    IN  U16Bytes(9) \o U16Bytes(3) \o U16Bytes(4) \o U16Bytes(1) \o U16Bytes(5)
        \o U32Bytes(Len(code_bytes) + 12)
        \o U16Bytes(5) \o U16Bytes(2)
        \o U32Bytes(Len(code_bytes)) \o code_bytes
        \o U16Bytes(0) \o U16Bytes(0)

(* constant_pool_count as written: `non_placeholder_count as u16 + 1` *)
CountWritten(cp) == (Cardinality({i \in 1..Len(cp) : cp[i].tag # "Placeholder"}) + 1) % 65536

generate_class_file(cp, bytecode_instructions) ==
    << 202, 254, 186, 190 >>                                     \* 0xCAFEBABE
    \o U16Bytes(0) \o U16Bytes(52)
    \o U16Bytes(CountWritten(cp))
    \o write_constant_pool(cp)
    \o U16Bytes(33) \o U16Bytes(19) \o U16Bytes(20)
    \o U16Bytes(0) \o U16Bytes(0) \o U16Bytes(1)
    \o write_main_method(bytecode_instructions)
    \o U16Bytes(0)

(* generate_dice_class / generate_java_class: the class-file bytes of a    *)
(* dice expression count d faces.                                          *)
generate_dice_class(class_name, count, faces) ==
    generate_class_file(setup_constant_pool(class_name), generate_dice_bytecode(count, faces))

---------------------------------------------------------------------------
(* Class-file reader (class_file_parser.rs).  pos is the cursor: the       *)
(* 1-based position of the next byte of data.                              *)

CanRead(data, pos, n) == pos + n - 1 <= Len(data)
U8At(data, pos) == data[pos]
U16At(data, pos) == data[pos] * 256 + data[pos + 1]
(* A u32 from 2^31 on exceeds every length of this model; it is read as    *)
(* the largest length, which no data satisfies either.                     *)
U32At(data, pos) ==
    IF data[pos] >= 128 THEN i32_MAX
    ELSE data[pos] * 16777216 + data[pos + 1] * 65536 + data[pos + 2] * 256 + data[pos + 3]
I32At(data, pos) ==
    FromBytes32(<< data[pos + 3], data[pos + 2], data[pos + 1], data[pos] >>)
I8(byte) == IF byte >= 128 THEN byte - 256 ELSE byte
I16(word) == IF word >= 32768 THEN word - 65536 ELSE word

(* String::from_utf8_lossy on the text of this model, which is ASCII: a    *)
(* byte outside ASCII becomes U+FFFD.                                      *)
from_utf8_lossy(bytes) ==
    Concat([i \in 1..Len(bytes) |->
               IF bytes[i] < 128 THEN << bytes[i] >> ELSE << 239, 191, 189 >>])

(* parse_bytecode: the opcode table.  [op, imm]: imm is the number of      *)
(* immediate bytes; op "" is an unknown opcode, which is skipped.          *)
Opcode(byte) ==
    CASE byte = 0 -> [op |-> "Nop", imm |-> 0]
      [] byte = 2 -> [op |-> "IconstM1", imm |-> 0]
      [] byte = 3 -> [op |-> "Iconst0", imm |-> 0]
      [] byte = 4 -> [op |-> "Iconst1", imm |-> 0]
      [] byte = 5 -> [op |-> "Iconst2", imm |-> 0]
      [] byte = 6 -> [op |-> "Iconst3", imm |-> 0]
      [] byte = 7 -> [op |-> "Iconst4", imm |-> 0]
      [] byte = 8 -> [op |-> "Iconst5", imm |-> 0]
      [] byte = 16 -> [op |-> "Bipush", imm |-> 1]
      [] byte = 17 -> [op |-> "Sipush", imm |-> 2]
      [] byte = 18 -> [op |-> "Ldc", imm |-> 1]
      [] byte = 20 -> [op |-> "Ldc2W", imm |-> 2]
      [] byte = 21 -> [op |-> "Iload", imm |-> 1]
      [] byte = 26 -> [op |-> "Iload0", imm |-> 0]
      [] byte = 27 -> [op |-> "Iload1", imm |-> 0]
      [] byte = 28 -> [op |-> "Iload2", imm |-> 0]
      [] byte = 29 -> [op |-> "Iload3", imm |-> 0]
      [] byte = 25 -> [op |-> "Aload", imm |-> 1]
      [] byte = 42 -> [op |-> "Aload0", imm |-> 0]
      [] byte = 43 -> [op |-> "Aload1", imm |-> 0]
      [] byte = 44 -> [op |-> "Aload2", imm |-> 0]
      [] byte = 45 -> [op |-> "Aload3", imm |-> 0]
      [] byte = 58 -> [op |-> "Astore", imm |-> 1]
      [] byte = 75 -> [op |-> "Astore0", imm |-> 0]
      [] byte = 76 -> [op |-> "Astore1", imm |-> 0]
      [] byte = 77 -> [op |-> "Astore2", imm |-> 0]
      [] byte = 78 -> [op |-> "Astore3", imm |-> 0]
      [] byte = 54 -> [op |-> "Istore", imm |-> 1]
      [] byte = 59 -> [op |-> "Istore0", imm |-> 0]
      [] byte = 60 -> [op |-> "Istore1", imm |-> 0]
      [] byte = 61 -> [op |-> "Istore2", imm |-> 0]
      [] byte = 62 -> [op |-> "Istore3", imm |-> 0]
      [] byte = 87 -> [op |-> "Pop", imm |-> 0]
      [] byte = 89 -> [op |-> "Dup", imm |-> 0]
      [] byte = 95 -> [op |-> "Swap", imm |-> 0]
      [] byte = 96 -> [op |-> "Iadd", imm |-> 0]
      [] byte = 100 -> [op |-> "Isub", imm |-> 0]
      [] byte = 104 -> [op |-> "Imul", imm |-> 0]
      [] byte = 108 -> [op |-> "Idiv", imm |-> 0]
      [] byte = 112 -> [op |-> "Irem", imm |-> 0]
      [] byte = 99 -> [op |-> "Dadd", imm |-> 0]
      [] byte = 103 -> [op |-> "Dsub", imm |-> 0]
      [] byte = 107 -> [op |-> "Dmul", imm |-> 0]
      [] byte = 111 -> [op |-> "Ddiv", imm |-> 0]
      [] byte = 135 -> [op |-> "I2d", imm |-> 0]
      [] byte = 142 -> [op |-> "D2i", imm |-> 0]
      [] byte = 30 -> [op |-> "Lload0", imm |-> 0]
      [] byte = 31 -> [op |-> "Lload1", imm |-> 0]
      [] byte = 32 -> [op |-> "Lload2", imm |-> 0]
      [] byte = 33 -> [op |-> "Lload3", imm |-> 0]
      [] byte = 24 -> [op |-> "Dload", imm |-> 1]
      [] byte = 38 -> [op |-> "Dload0", imm |-> 0]
      [] byte = 39 -> [op |-> "Dload1", imm |-> 0]
      [] byte = 40 -> [op |-> "Dload2", imm |-> 0]
      [] byte = 41 -> [op |-> "Dload3", imm |-> 0]
      [] byte = 57 -> [op |-> "Dstore", imm |-> 1]
      [] byte = 71 -> [op |-> "Dstore0", imm |-> 0]
      [] byte = 72 -> [op |-> "Dstore1", imm |-> 0]
      [] byte = 73 -> [op |-> "Dstore2", imm |-> 0]
      [] byte = 74 -> [op |-> "Dstore3", imm |-> 0]
      [] byte = 63 -> [op |-> "Lstore0", imm |-> 0]
      [] byte = 64 -> [op |-> "Lstore1", imm |-> 0]
      [] byte = 65 -> [op |-> "Lstore2", imm |-> 0]
      [] byte = 66 -> [op |-> "Lstore3", imm |-> 0]
      [] byte = 167 -> [op |-> "Goto", imm |-> 2]
      [] byte = 153 -> [op |-> "Ifeq", imm |-> 2]
      [] byte = 154 -> [op |-> "Ifne", imm |-> 2]
      [] byte = 155 -> [op |-> "Iflt", imm |-> 2]
      [] byte = 156 -> [op |-> "Ifge", imm |-> 2]
      [] byte = 157 -> [op |-> "Ifgt", imm |-> 2]
      [] byte = 158 -> [op |-> "Ifle", imm |-> 2]
      [] byte = 177 -> [op |-> "Return", imm |-> 0]
      [] byte = 172 -> [op |-> "Ireturn", imm |-> 0]
      [] byte = 178 -> [op |-> "Getstatic", imm |-> 2]
      [] byte = 182 -> [op |-> "Invokevirtual", imm |-> 2]
      [] byte = 184 -> [op |-> "Invokestatic", imm |-> 2]
      [] byte = 11 -> [op |-> "Lconst0", imm |-> 0]
      [] byte = 14 -> [op |-> "Dconst0", imm |-> 0]
      [] byte = 15 -> [op |-> "Dconst1", imm |-> 0]
      [] byte = 183 -> [op |-> "Invokespecial", imm |-> 2]
      [] byte = 187 -> [op |-> "New", imm |-> 2]
      [] OTHER -> [op |-> "", imm |-> 0]

(* The immediate as the variant stores it: i8 for Bipush, i16 for Sipush,  *)
(* the unsigned byte or word for the rest.                                 *)
Immediate(op, bytecode, i) ==
    CASE op.imm = 0 -> 0
      [] op.op = "Bipush" -> I8(bytecode[i])
      [] op.op = "Sipush" -> I16(U16At(bytecode, i))
      [] op.imm = 1 -> bytecode[i]
      [] OTHER -> U16At(bytecode, i)

(* One iteration of the decoding loop at position i (1-based): [err, size, *)
(* instructions], the bytes consumed and the instruction pushed, none for  *)
(* an unknown opcode.                                                      *)
Decode(bytecode, i) ==
    LET op == Opcode(bytecode[i])
    IN  IF op.op = "" THEN [err |-> "", size |-> 1, instructions |-> << >>]
        ELSE IF i + op.imm > Len(bytecode)
             THEN [err |-> "InvalidStackState", size |-> 0, instructions |-> << >>]
        ELSE [err |-> "", size |-> 1 + op.imm,
              instructions |-> << Instr(op.op, Immediate(op, bytecode, i + 1)) >>]

(* an iteration that moves on by one byte whatever it decoded *)
DecodeStepOneByte(bytecode, at) ==
    LET decoded == Decode(bytecode, at.i)
    IN  IF at.err # "" \/ at.i > Len(bytecode) THEN at
        ELSE [err |-> "", i |-> at.i + 1,
              instructions |-> at.instructions \o decoded.instructions]

(* The loop from the state at = [err, i, instructions]: one iteration, and *)
(* n iterations as two runs of half as many.  Past the end or after an     *)
(* error an iteration changes nothing.                                     *)
DecodeStep(bytecode, at) ==
    LET decoded == Decode(bytecode, at.i)
    IN  IF at.err # "" \/ at.i > Len(bytecode) THEN at
        ELSE IF decoded.err # "" THEN [at EXCEPT !.err = decoded.err]
        ELSE [err |-> "", i |-> at.i + decoded.size,
              instructions |-> at.instructions \o decoded.instructions]

RECURSIVE DecodeFrom(_, _, _)
DecodeFrom(bytecode, at, n) ==
    LET half == DecodeFrom(bytecode, at, n \div 2)
    IN  IF n <= 1 THEN DecodeStep(bytecode, at)
        ELSE IF half.err # "" THEN half
        ELSE DecodeFrom(bytecode, half, n - n \div 2)

parse_bytecode(bytecode) ==
    DecodeFrom(bytecode, [err |-> "", i |-> 1, instructions |-> << >>], Len(bytecode))

(* A size table that knows tag 17 (Dynamic) as a four-byte entry: the      *)
(* unknown-tag property has to tell it from the table of the code.         *)
PoolEntrySizeWithDynamic(tag) ==
    CASE tag \in {7, 8, 16} -> 2
      [] tag \in {3, 4, 9, 10, 11, 12, 17, 18} -> 4
      [] tag \in {5, 6} -> 8
      [] tag = 15 -> 3
      [] OTHER -> -1

(* The constant-pool loop of parse: entry i of constant_pool_count, the    *)
(* cursor at pos.  [err, pos, cp].                                         *)
PoolEntrySize(tag) ==
    CASE tag \in {7, 8, 16} -> 2
      [] tag \in {3, 4, 9, 10, 11, 12, 18} -> 4
      [] tag \in {5, 6} -> 8
      [] tag = 15 -> 3
      [] OTHER -> -1                       \* Utf8 (sized by its length) and unknown tags

(* A reader that takes the two indices of a NameAndType in the other       *)
(* order: the equality of the pools has to tell it from the reader of the  *)
(* code.                                                                   *)
PoolEntrySwapped(tag, data, pos) ==
    CASE tag = 3 -> CpInteger(I32At(data, pos))
      [] tag = 4 -> CpFloat(BytesToFloat(SubSeq(data, pos, pos + 3), 8, 23, 127))
      [] tag = 5 -> CpLong(I32At(data, pos + 4))
      [] tag = 6 -> CpDouble(BytesToFloat(SubSeq(data, pos, pos + 7), 11, 52, 1023))
      [] tag = 7 -> CpClass(U16At(data, pos))
      [] tag = 8 -> CpString(U16At(data, pos))
      [] tag = 9 -> CpFieldref(U16At(data, pos), U16At(data, pos + 2))
      [] tag \in {10, 11} -> CpMethodref(U16At(data, pos), U16At(data, pos + 2))
      [] tag = 12 -> CpNameAndType(U16At(data, pos + 2), U16At(data, pos))
      [] OTHER -> CpPlaceholder

PoolEntry(tag, data, pos) ==
    CASE tag = 3 -> CpInteger(I32At(data, pos))
      [] tag = 4 -> CpFloat(BytesToFloat(SubSeq(data, pos, pos + 3), 8, 23, 127))
      [] tag = 5 -> CpLong(I32At(data, pos + 4))
      [] tag = 6 -> CpDouble(BytesToFloat(SubSeq(data, pos, pos + 7), 11, 52, 1023))
      [] tag = 7 -> CpClass(U16At(data, pos))
      [] tag = 8 -> CpString(U16At(data, pos))
      [] tag = 9 -> CpFieldref(U16At(data, pos), U16At(data, pos + 2))
      [] tag \in {10, 11} -> CpMethodref(U16At(data, pos), U16At(data, pos + 2))
      [] tag = 12 -> CpNameAndType(U16At(data, pos), U16At(data, pos + 2))
      [] OTHER -> CpPlaceholder            \* MethodHandle, MethodType, InvokeDynamic

(* One iteration of the loop: [err, size, entries], the bytes consumed and  *)
(* the entries pushed (two for a Long or a Double).                         *)
ReadPoolEntry(data, pos, cp) ==
    LET failed(kind) == [err |-> kind, size |-> 0, entries |-> << >>]
        tag == U8At(data, pos)
        length == U16At(data, pos + 1)
    IN  IF ~CanRead(data, pos, 1) THEN failed("InvalidStackState")
        ELSE IF tag = 1
             THEN IF ~CanRead(data, pos + 1, 2) \/ ~CanRead(data, pos + 3, length)
                  THEN failed("InvalidStackState")
                  ELSE IF Len(cp) >= u16_MAX THEN failed("panic")
                  ELSE [err |-> "", size |-> 3 + length,
                        entries |-> << CpUtf8(from_utf8_lossy(
                                           SubSeq(data, pos + 3, pos + 2 + length))) >>]
        ELSE IF PoolEntrySize(tag) = -1 THEN failed("UnknownConstantPoolTag")
        ELSE IF ~CanRead(data, pos + 1, PoolEntrySize(tag)) THEN failed("InvalidStackState")
        ELSE IF tag \in {7, 8, 9} /\ Len(cp) >= u16_MAX THEN failed("panic")
        ELSE [err |-> "", size |-> 1 + PoolEntrySize(tag),
              entries |-> IF tag \in {5, 6}
                          THEN add_wide(<< >>, PoolEntry(tag, data, pos + 1))
                          ELSE add_entry(<< >>, PoolEntry(tag, data, pos + 1))]

(* The loop from the state at = [err, pos, i, cp], the cursor, the index   *)
(* of the next entry and the pool read so far: one iteration, and n        *)
(* iterations as two runs of half as many.  Past the last entry or after   *)
(* an error an iteration changes nothing.                                  *)
ParsePoolStep(data, constant_pool_count, at) ==
    LET read == ReadPoolEntry(data, at.pos, at.cp)
    IN  IF at.err # "" \/ at.i >= constant_pool_count THEN at
        ELSE IF read.err # "" THEN [at EXCEPT !.err = read.err]
        ELSE [err |-> "", pos |-> at.pos + read.size, i |-> at.i + Len(read.entries),
              cp |-> at.cp \o read.entries]

RECURSIVE ParsePoolFrom(_, _, _, _)
ParsePoolFrom(data, constant_pool_count, at, n) ==
    LET half == ParsePoolFrom(data, constant_pool_count, at, n \div 2)
    IN  IF n <= 1 THEN ParsePoolStep(data, constant_pool_count, at)
        ELSE IF half.err # "" THEN half
        ELSE ParsePoolFrom(data, constant_pool_count, half, n - n \div 2)

ParsePool(data, pos, i, constant_pool_count, cp) ==
    ParsePoolFrom(data, constant_pool_count, [err |-> "", pos |-> pos, i |-> i, cp |-> cp],
                  constant_pool_count)

(* get_utf8_from_pool: the text of a Utf8 entry, empty for anything else. *)
get_utf8_from_pool(cp, index) ==
    IF index # 0 /\ index <= Len(cp) /\ cp[index].tag = "Utf8" THEN cp[index].s ELSE << >>

(* entries.get((index - 1) as usize) as a Utf8: [k, s] with k "panic" when *)
(* index is 0 and the subtraction is checked, "none" when there is no such *)
(* Utf8 entry.                                                             *)
Utf8Entry(cp, index, overflow_checks) ==
    IF index = 0 THEN [k |-> IF overflow_checks THEN "panic" ELSE "none", s |-> << >>]
    ELSE IF index <= Len(cp) /\ cp[index].tag = "Utf8" THEN [k |-> "some", s |-> cp[index].s]
    ELSE [k |-> "none", s |-> << >>]

(* check_is_main_method: [k, is_main_method, is_preferred], k "panic" when *)
(* an index is 0 and the subtraction is checked.                           *)
check_is_main_method(cp, name_index, descriptor_index, overflow_checks) ==
    LET name == Utf8Entry(cp, name_index, overflow_checks)
        descriptor == Utf8Entry(cp, descriptor_index, overflow_checks)
        answer(is_main_method, is_preferred) ==
            [k |-> "ok", is_main_method |-> is_main_method, is_preferred |-> is_preferred]
    IN  IF name.k = "panic" THEN [answer(FALSE, FALSE) EXCEPT !.k = "panic"]
        ELSE IF name.k = "none" \/ name.s # Str.main THEN answer(FALSE, FALSE)
        ELSE IF descriptor.k = "panic" THEN [answer(FALSE, FALSE) EXCEPT !.k = "panic"]
        ELSE IF descriptor.k = "none" THEN answer(FALSE, FALSE)
        ELSE IF descriptor.s = Str.void_V THEN answer(TRUE, TRUE)
        ELSE IF descriptor.s = Str.main_descriptor THEN answer(TRUE, FALSE)
        ELSE answer(FALSE, FALSE)

(* check_is_code_attribute: "yes", "no", or "panic" for index 0 when the   *)
(* subtraction is checked.                                                 *)
check_is_code_attribute(cp, attribute_name_index, overflow_checks) ==
    LET name == Utf8Entry(cp, attribute_name_index, overflow_checks)
    IN  IF name.k = "panic" THEN "panic"
        ELSE IF name.k = "some" /\ name.s = Str.Code THEN "yes"
        ELSE "no"

(* Skipping count attributes (name index, length, that many bytes) from    *)
(* pos: the position after them, or 0 when the data ends first.            *)
RECURSIVE SkipAttributes(_, _, _)
SkipAttributes(data, pos, count) ==
    IF count = 0 THEN pos
    ELSE IF ~CanRead(data, pos, 6) THEN 0
    ELSE IF U32At(data, pos + 2) > Len(data) \/ ~CanRead(data, pos + 6, U32At(data, pos + 2))
         THEN 0
    ELSE SkipAttributes(data, pos + 6 + U32At(data, pos + 2), count - 1)

(* Skipping count fields (three u16, then their attributes). *)
RECURSIVE SkipFields(_, _, _)
SkipFields(data, pos, count) ==
    IF count = 0 THEN pos
    ELSE IF ~CanRead(data, pos, 8) THEN 0
    ELSE IF SkipAttributes(data, pos + 8, U16At(data, pos + 6)) = 0 THEN 0
    ELSE SkipFields(data, SkipAttributes(data, pos + 8, U16At(data, pos + 6)), count - 1)

(* The body of a Code attribute from pos (after name index and length):    *)
(* [err, pos, m] with m = [bytecode, max_locals, max_stack].               *)
ParseCode(data, pos) ==
    LET failed(kind) == [err |-> kind, pos |-> pos,
                         m |-> [bytecode |-> << >>, max_locals |-> 0, max_stack |-> 0]]
        code_length == U32At(data, pos + 4)
        decoded == parse_bytecode(SubSeq(data, pos + 8, pos + 7 + code_length))
        table == pos + 8 + code_length
        table_length == U16At(data, table)
        attributes == table + 2 + 8 * table_length
        after == SkipAttributes(data, attributes + 2, U16At(data, attributes))
    IN  IF ~CanRead(data, pos, 8) THEN failed("InvalidStackState")
        ELSE IF code_length > Len(data) \/ ~CanRead(data, pos + 8, code_length)
             THEN failed("InvalidStackState")
        ELSE IF decoded.err # "" THEN failed(decoded.err)
        ELSE IF ~CanRead(data, table, 2) THEN failed("InvalidStackState")
        ELSE IF ~CanRead(data, table + 2, 8 * table_length) THEN failed("InvalidStackState")
        ELSE IF ~CanRead(data, attributes, 2) THEN failed("InvalidStackState")
        ELSE IF after = 0 THEN failed("InvalidStackState")
        ELSE [err |-> "", pos |-> after,
              m |-> [bytecode |-> decoded.instructions,
                     max_locals |-> U16At(data, pos + 2), max_stack |-> U16At(data, pos)]]

(* One attribute of a method at pos: m is what the Code attributes read so *)
(* far have left.  [err, pos, m].                                          *)
ParseMethodAttribute(data, pos, cp, m, overflow_checks) ==
    LET is_code == check_is_code_attribute(cp, U16At(data, pos), overflow_checks)
        skipped == SkipAttributes(data, pos, 1)
    IN  IF ~CanRead(data, pos, 6) THEN [err |-> "InvalidStackState", pos |-> pos, m |-> m]
        ELSE IF is_code = "panic" THEN [err |-> "panic", pos |-> pos, m |-> m]
        ELSE IF is_code = "yes" THEN ParseCode(data, pos + 6)
        ELSE IF skipped = 0 THEN [err |-> "InvalidStackState", pos |-> pos, m |-> m]
        ELSE [err |-> "", pos |-> skipped, m |-> m]

(* The attribute loop of one method from the state at = [err, pos, m]. *)
RECURSIVE ParseMethodAttributes(_, _, _, _, _)
ParseMethodAttributes(data, count, cp, overflow_checks, at) ==
    IF count = 0 \/ at.err # "" THEN at
    ELSE ParseMethodAttributes(data, count - 1, cp, overflow_checks,
             ParseMethodAttribute(data, at.pos, cp, at.m, overflow_checks))

(* What the method loop does with one method once its attributes are read: *)
(* a method with bytecode is stored under its name, and becomes the main   *)
(* method when it is main and either the first such or main()V.            *)
StoreMethod(class, method_name, descriptor, is_main, attrs) ==
    LET stored == [class EXCEPT !.methods =
                      (method_name :> MethodInfo(method_name, descriptor, attrs.m.bytecode,
                                                 attrs.m.max_locals, attrs.m.max_stack)) @@ @]
    IN  IF is_main.k = "panic" THEN [err |-> "panic", pos |-> attrs.pos, class |-> class]
        ELSE IF attrs.err # "" THEN [err |-> attrs.err, pos |-> attrs.pos, class |-> class]
        ELSE IF attrs.m.bytecode = << >> THEN [err |-> "", pos |-> attrs.pos, class |-> class]
        ELSE IF is_main.is_main_method
                /\ (class.main_method_bytecode = << >> \/ is_main.is_preferred)
             THEN [err |-> "", pos |-> attrs.pos,
                   class |-> [stored EXCEPT !.main_method_bytecode = attrs.m.bytecode,
                                            !.max_locals = attrs.m.max_locals,
                                            !.max_stack = attrs.m.max_stack]]
        ELSE [err |-> "", pos |-> attrs.pos, class |-> stored]

(* One method_info at pos. *)
ParseMethod(data, pos, class, overflow_checks) ==
    IF ~CanRead(data, pos, 8) THEN [err |-> "InvalidStackState", pos |-> pos, class |-> class]
    ELSE StoreMethod(class,
                     get_utf8_from_pool(class.constant_pool, U16At(data, pos + 2)),
                     get_utf8_from_pool(class.constant_pool, U16At(data, pos + 4)),
                     check_is_main_method(class.constant_pool, U16At(data, pos + 2),
                                          U16At(data, pos + 4), overflow_checks),
                     ParseMethodAttributes(data, U16At(data, pos + 6), class.constant_pool,
                         overflow_checks,
                         [err |-> "", pos |-> pos + 8,
                          m |-> [bytecode |-> << >>, max_locals |-> 0, max_stack |-> 0]]))

(* The method loop of parse from the state at = [err, pos, class]. *)
RECURSIVE ParseMethods(_, _, _, _)
ParseMethods(data, count, overflow_checks, at) ==
    IF count = 0 \/ at.err # "" THEN at
    ELSE ParseMethods(data, count - 1, overflow_checks,
                      ParseMethod(data, at.pos, at.class, overflow_checks))

(* parse after the constant pool: access flags, this and super class, the  *)
(* interfaces, the fields, the methods.                                    *)
ParseClassBody(data, pool, overflow_checks) ==
    LET empty == ClassFile(<< >>, << >>, 0, 0, << >>)
        failed(kind) == [err |-> kind, pos |-> pool.pos, class |-> empty]
        \* UnknownConstantPoolTag { tag, index: i as u16 }
        unknown == [err |-> pool.err, pos |-> pool.pos, class |-> empty,
                    tag |-> U8At(data, pool.pos), index |-> pool.i]
        interfaces == pool.pos + 6
        fields == interfaces + 2 + 2 * U16At(data, interfaces)
        methods == SkipFields(data, fields + 2, U16At(data, fields))
    IN  IF pool.err = "UnknownConstantPoolTag" THEN unknown
        ELSE IF pool.err # "" THEN failed(pool.err)
        ELSE IF ~CanRead(data, pool.pos, 8) THEN failed("InvalidStackState")
        ELSE IF ~CanRead(data, interfaces + 2, 2 * U16At(data, interfaces))
             THEN failed("InvalidStackState")
        ELSE IF ~CanRead(data, fields, 2) THEN failed("InvalidStackState")
        ELSE IF methods = 0 THEN failed("InvalidStackState")
        ELSE IF ~CanRead(data, methods, 2) THEN failed("InvalidStackState")
        ELSE ParseMethods(data, U16At(data, methods), overflow_checks,
                          [err |-> "", pos |-> methods + 2,
                           class |-> [empty EXCEPT !.constant_pool = pool.cp]])

(* ClassFileParser::parse: [err, pos, class]; on an error the class is not *)
(* returned.                                                               *)
parse(data, overflow_checks) ==
    IF ~CanRead(data, 1, 4) \/ SubSeq(data, 1, 4) # << 202, 254, 186, 190 >>
       \/ ~CanRead(data, 5, 6)
    THEN [err |-> "InvalidStackState", pos |-> 1, class |-> ClassFile(<< >>, << >>, 0, 0, << >>)]
    ELSE ParseClassBody(data, ParsePool(data, 11, 1, U16At(data, 9), << >>), overflow_checks)
---------------------------------------------------------------------------
(* Inputs: the programs handed to execute_method and the class files       *)
(* handed to execute_class_file.                                           *)

(* The pool of the programs below: the generator's 35 entries for class    *)
(* Demo, then the methods of the class, further PrintStream methods and    *)
(* constants.                                                              *)
TestPool ==
    setup_constant_pool(Str.Demo) \o
    << CpUtf8(Str.f),                   \* 36
       CpUtf8(Str.g),                   \* 37
       CpUtf8(Str.a),                   \* 38
       CpUtf8(Str.b),                   \* 39
       CpUtf8(Str.void_V),              \* 40
       CpUtf8(Str.void_I),              \* 41
       CpUtf8(Str.I_I),                 \* 42
       CpNameAndType(36, 40),           \* 43  f
       CpNameAndType(37, 40),           \* 44  g
       CpNameAndType(38, 40),           \* 45  a
       CpNameAndType(39, 40),           \* 46  b
       CpMethodref(19, 43),             \* 47  Demo.f
       CpMethodref(19, 44),             \* 48  Demo.g
       CpMethodref(19, 45),             \* 49  Demo.a
       CpMethodref(19, 46),             \* 50  Demo.b
       CpUtf8(Str.Hello),               \* 51
       CpString(51),                    \* 52  "Hello, World!"
       CpNameAndType(11, 18),           \* 53  println (Ljava/lang/String;)V
       CpMethodref(22, 53),             \* 54  PrintStream.println(String)
       CpInteger(i32_MAX),              \* 55
       CpInteger(i32_MIN),              \* 56
       CpFloat([m |-> 5, e |-> -1]),    \* 57  2.5f
       CpUtf8(Str.F_V),                 \* 58
       CpUtf8(Str.D_V),                 \* 59
       CpUtf8(Str.Z_V),                 \* 60
       CpUtf8(Str.C_V),                 \* 61
       CpNameAndType(11, 58),           \* 62
       CpNameAndType(11, 59),           \* 63
       CpNameAndType(11, 60),           \* 64
       CpNameAndType(11, 61),           \* 65
       CpMethodref(22, 62),             \* 66  PrintStream.println(F)
       CpMethodref(22, 63),             \* 67  PrintStream.println(D)
       CpMethodref(22, 64),             \* 68  PrintStream.println(Z)
       CpMethodref(22, 65),             \* 69  PrintStream.println(C)
       CpUtf8(Str.II_V),                \* 70
       CpDouble([m |-> 3, e |-> -2]),   \* 71  0.75
       CpPlaceholder,                   \* 72
       CpMethodref(19, 30),             \* 73  Demo.random
       CpMethodref(23, 43),             \* 74  Math.f
       CpUtf8(Str.J_V),                 \* 75
       CpUtf8(Str.Object_V),            \* 76
       CpNameAndType(11, 75),           \* 77
       CpNameAndType(11, 76),           \* 78
       CpMethodref(22, 77),             \* 79  PrintStream.println(J)
       CpMethodref(22, 78) >>           \* 80  PrintStream.println(Object)

(* The pool indices the programs use. *)
Ref ==
    [ out |-> 31, err |-> 32, println_int |-> 33, print |-> 34, random |-> 35,
      f |-> 47, g |-> 48, a |-> 49, b |-> 50, hello |-> 52, println_string |-> 54,
      int_max |-> 55, int_min |-> 56, float |-> 57, println_float |-> 66,
      println_double |-> 67, println_boolean |-> 68, println_char |-> 69, double |-> 71,
      u_main |-> 3, u_main_descriptor |-> 4, u_Code |-> 5, u_f |-> 36, u_g |-> 37,
      u_a |-> 38, u_b |-> 39, u_void_V |-> 40, u_void_I |-> 41, u_I_I |-> 42,
      u_II_V |-> 70, u_random |-> 14, demo_random |-> 73, math_f |-> 74,
      println_long |-> 79, println_object |-> 80 ]

(* Pushing an int: the generator's shortest push, or Ldc of an Integer     *)
(* entry for the two extremes.                                             *)
PushInt(value) ==
    CASE value = i32_MAX -> << Instr("Ldc", Ref.int_max) >>
      [] value = i32_MIN -> << Instr("Ldc", Ref.int_min) >>
      [] OTHER -> push_int_constant(value)

IntSamples == { i32_MIN, -1, 0, 1, 5, i32_MAX }

Program(name, bytecode, constant_pool, max_locals) ==
    [name |-> name, count |-> 0, faces |-> 0, bytecode |-> bytecode,
     constant_pool |-> constant_pool, max_locals |-> max_locals]

(* tests::test_simple_arithmetic, tests::test_conditional_jump,            *)
(* tests::test_jvm_compatible_hello_world                                  *)
SimpleArithmetic ==
    Program("simple_arithmetic",
            << Op("Iconst2"), Op("Iconst3"), Op("Iadd"), Op("Ireturn") >>, << >>, 0)

ConditionalJump ==
    Program("conditional_jump",
            << Op("Iconst0"), Instr("Ifne", 5), Op("Iconst1"), Op("Ireturn"),
               Op("Iconst2"), Op("Ireturn") >>, << >>, 0)

HelloWorld ==
    Program("hello_world",
            << Instr("Getstatic", Ref.out), Instr("Ldc", Ref.hello),
               Instr("Invokevirtual", Ref.println_string), Op("Return") >>, TestPool, 0)

(* A local, a lower stack element, the two operands, Iadd. *)
IaddPrograms ==
    { Program("iadd", << Op("Iconst4"), Op("Istore0"), Op("Iconst3") >>
                      \o PushInt(x) \o PushInt(y) \o << Op("Iadd"), Op("Ireturn") >>,
              TestPool, 1) : x \in IntSamples, y \in IntSamples }
    \cup
    { Program("iadd_float", << Op("Iconst3"), Instr("Ldc", Ref.float) >> \o PushInt(y)
                            \o << Op("Iadd"), Op("Ireturn") >>, TestPool, 1) :
        y \in {1, i32_MAX} }

(* A lower stack element, the tested value, the branch. *)
BranchPrograms ==
    { Program("branch", << Op("Iconst5") >> \o PushInt(v)
                        \o << Instr(op, 5), Op("Iconst1"), Op("Ireturn"),
                              Op("Iconst2"), Op("Ireturn") >>, TestPool, 0) :
        op \in BranchOps, v \in IntSamples }
    \cup
    { Program("goto", << Op("Iconst5"), Instr("Goto", 3), Op("Iconst1"), Op("Ireturn") >>,
              << >>, 0),
      Program("goto_self", << Instr("Goto", 0) >>, << >>, 0),
      Program("backward_loop", << Op("Iconst0"), Op("Pop"), Instr("Goto", 0) >>, << >>, 0) }

(* receiver, argument, the PrintStream method, Return *)
PrintPrograms ==
    { Program("print", << Instr("Getstatic", stream) >> \o call[1]
                       \o << Instr("Invokevirtual", call[2]), Op("Return") >>, TestPool, 0) :
        stream \in {Ref.out, Ref.err},
        call \in { << << Op("Iconst5") >>, Ref.println_int >>,
                   << << Instr("Ldc", Ref.int_min) >>, Ref.println_int >>,
                   << << Instr("Ldc", Ref.hello) >>, Ref.print >>,
                   << << Instr("Ldc", Ref.hello) >>, Ref.println_string >>,
                   << << Instr("Ldc", Ref.float) >>, Ref.println_float >>,
                   << << Instr("Ldc2W", Ref.double) >>, Ref.println_double >>,
                   << << Op("Iconst1") >>, Ref.println_boolean >>,
                   << << Instr("Bipush", 65) >>, Ref.println_char >>,
                   \* "a" + 5 as javac compiles it: invokedynamic makeConcat
                   << << Op("Iconst5"), Instr("Invokedynamic", 1) >>, Ref.println_string >>,
                   << << Op("Iconst5"), Instr("Invokedynamic", 1) >>, Ref.print >> } }

(* `run --jvm`: generate_vm_instructions, then execute_method with 10      *)
(* locals.                                                                 *)
DiceFaces == { 1, 2, 3, 4, 6, 100, 200 }

(* The multi-die program of count dice with more than five faces has       *)
(* 12 * count + 10 instructions: BudgetCount is the smallest count whose   *)
(* program is longer than the step budget (8333 for max_steps 100_000).    *)
BudgetCount == (max_steps - 10) \div 12 + 1

DicePrograms ==
    { [name |-> "dice", count |-> count, faces |-> faces,
       bytecode |-> generate_dice_bytecode(count, faces),
       constant_pool |-> setup_constant_pool(Str.DiceRoll), max_locals |-> 10] :
        count \in 1..MaxCount, faces \in DiceFaces }
    \cup
    { [name |-> "dice", count |-> count, faces |-> 6,
       bytecode |-> generate_dice_bytecode(count, 6),
       constant_pool |-> setup_constant_pool(Str.DiceRoll), max_locals |-> 10] :
        count \in { BudgetCount - 1, BudgetCount } }

(* A pool with one entry of every kind Ldc loads, and the same constant    *)
(* loaded twice.                                                           *)
LdcPool ==
    << CpInteger(7),                    \* 1
       CpFloat([m |-> 5, e |-> -1]),    \* 2  2.5f
       CpLong(i32_MIN),                 \* 3
       CpPlaceholder,                   \* 4
       CpDouble([m |-> 3, e |-> -2]),   \* 5  0.75
       CpPlaceholder,                   \* 6
       CpUtf8(Str.Hello),               \* 7
       CpString(7) >>                   \* 8  "Hello, World!"

LdcPrograms ==
    { Program("ldc_twice", << Instr("Ldc", k), Instr("Ldc", k), Op("Return") >>,
              LdcPool, 0) : k \in 1..Len(LdcPool) }

(* tests::test_math_random_compatibility: a value is left on the operand   *)
(* stack when Return executes.                                             *)
MathRandom ==
    Program("math_random", << Instr("Invokestatic", Ref.random), Op("Return") >>,
            TestPool, 0)

(* A pool with Integer.toString, StringBuilder.toString, a String,         *)
(* System.out and println(String).                                         *)
ObjectPool ==
    << CpUtf8(Str.java_lang_Integer),        \*  1
       CpUtf8(Str.toString),                 \*  2
       CpUtf8(Str.I_String),                 \*  3
       CpClass(1),                           \*  4
       CpNameAndType(2, 3),                  \*  5
       CpMethodref(4, 5),                    \*  6  Integer.toString(I)
       CpUtf8(Str.java_lang_StringBuilder),  \*  7
       CpUtf8(Str.void_String),              \*  8
       CpClass(7),                           \*  9
       CpNameAndType(2, 8),                  \* 10
       CpMethodref(9, 10),                   \* 11  StringBuilder.toString()
       CpUtf8(Str.Hello),                    \* 12
       CpString(12),                         \* 13  "Hello, World!"
       CpUtf8(Str.java_lang_System),         \* 14
       CpUtf8(Str.out),                      \* 15
       CpUtf8(Str.PrintStream_type),         \* 16
       CpClass(14),                          \* 17
       CpNameAndType(15, 16),                \* 18
       CpFieldref(17, 18),                   \* 19  System.out
       CpUtf8(Str.java_io_PrintStream),      \* 20
       CpUtf8(Str.println),                  \* 21
       CpUtf8(Str.String_V),                 \* 22
       CpClass(20),                          \* 23
       CpNameAndType(21, 22),                \* 24
       CpMethodref(23, 24) >>                \* 25  PrintStream.println(String)

(* What a second call on the same instance is given. *)
LaterPrograms ==
    { Program("later_return", << Op("Return") >>, << >>, 0),
      Program("later_arithmetic", SimpleArithmetic.bytecode, << >>, 0),
      Program("later_allocations",
              << Instr("Getstatic", 19), Instr("Ldc", 13), Instr("Invokevirtual", 25),
                 Op("Return") >>, ObjectPool, 0) }

(* A lower stack element, dividend, divisor, the division.  The divisor is *)
(* zero or not; the dividend of divide_float is a float.                   *)
DivisionPrograms ==
    { Program("divide", << Op("Iconst5") >> \o PushInt(a) \o PushInt(b)
                        \o << Op(op), Op("Ireturn") >>, TestPool, 0) :
        op \in {"Idiv", "Irem"}, a \in {i32_MIN, -1, 0, 5}, b \in {0, 2} }
    \cup
    { Program("divide_double", << Op("Iconst5"), a, b, Op("Ddiv"), Op("D2i"), Op("Ireturn") >>,
              TestPool, 0) :
        a \in {Op("Dconst1"), Op("Dconst0"), Instr("Ldc2W", Ref.double)},
        b \in {Op("Dconst0"), Op("Dconst1")} }
    \cup
    { Program("divide_float", << Instr("Ldc", Ref.float), Op("Iconst0"), Op(op), Op("Ireturn") >>,
              TestPool, 0) : op \in {"Idiv", "Irem"} }

(* Branches whose target lies beyond the end of the bytecode. *)
OutOfRangePrograms ==
    { Program("goto_out", << Op("Iconst5"), Instr("Goto", 9), Op("Iconst1"), Op("Ireturn") >>,
              << >>, 0) }
    \cup
    { Program("branch_out", << Op("Iconst5"), Op("Iconst0"), Instr(op, 7), Op("Iconst1"),
                               Op("Ireturn") >>, << >>, 0) : op \in {"Ifeq", "Ifge", "Ifle"} }

(* A pool of 40 Integer entries: no index resolves to a field or a method. *)
IntegerPool == [i \in 1..40 |-> CpInteger(i)]

(* Getstatic, Invokevirtual and Invokestatic on indices of IntegerPool. *)
UnresolvedPrograms ==
    { Program("unresolved", << Op("Iconst5"), Instr("Getstatic", k), Op("Pop"), Op("Return") >>,
              IntegerPool, 0) : k \in {30, 31, 32, 33} }
    \cup
    { Program("unresolved", << Op("Iconst5"), Instr("Invokestatic", k), Op("Return") >>,
              IntegerPool, 0) : k \in {35, 36, 37} }
    \cup
    { Program("unresolved", << Op("Iconst4"), Op("Iconst5"), Instr("Invokevirtual", k),
                               Op("Return") >>, IntegerPool, 0) : k \in {32, 33, 34, 35, 36} }
    \cup
    { Program("unresolved", << Instr("Getstatic", 31), Op("Iconst5"), Instr("Invokevirtual", 33),
                               Op("Return") >>, IntegerPool, 0) }

(* A local set first, a lower stack element, the value, the store: to a    *)
(* slot the frame has or beyond them.                                      *)
StoreInstructions ==
    { << << Op("Iconst3") >>, Instr("Istore", k) >> : k \in {0, 3, 5} }
    \cup { << << Op("Iconst3") >>, Op(op) >> : op \in {"Istore0", "Istore1", "Istore2", "Istore3"} }
    \cup { << << Instr("Ldc", Ref.hello) >>, Instr("Astore", k) >> : k \in {0, 3, 5} }
    \cup { << << Instr("Ldc", Ref.hello) >>, Op(op) >> :
               op \in {"Astore0", "Astore1", "Astore2", "Astore3"} }
    \cup { << << Op("Dconst1") >>, Instr("Dstore", k) >> : k \in {0, 3, 5} }
    \cup { << << Op("Dconst1") >>, Op(op) >> : op \in {"Dstore0", "Dstore1", "Dstore2", "Dstore3"} }
    \cup { << << Op("Lconst1") >>, Instr("Lstore", k) >> : k \in {0, 3, 5} }
    \cup { << << Op("Lconst1") >>, Op(op) >> : op \in {"Lstore0", "Lstore1", "Lstore2", "Lstore3"} }

StorePrograms ==
    { Program("store", << Op("Iconst4"), Op("Istore1"), Op("Iconst5") >> \o store[1]
                       \o << store[2], Op("Return") >>, TestPool, max_locals) :
        store \in StoreInstructions, max_locals \in {0, 3} }

(* println of every descriptor on System.out and System.err, the argument  *)
(* of the descriptor's type                                                *)
PrintlnVariants ==
    { Program("println_variant", << Instr("Getstatic", stream) >> \o call[1]
                                 \o << Instr("Invokevirtual", call[2]), Op("Return") >>,
              TestPool, 0) :
        stream \in {Ref.out, Ref.err},
        call \in { << << Op("Iconst5") >>, Ref.println_int >>,
                   << << Op("Lconst1") >>, Ref.println_long >>,
                   << << Instr("Ldc", Ref.float) >>, Ref.println_float >>,
                   << << Instr("Ldc2W", Ref.double) >>, Ref.println_double >>,
                   << << Op("Iconst1") >>, Ref.println_boolean >>,
                   << << Instr("Bipush", 65) >>, Ref.println_char >>,
                   << << Instr("Ldc", Ref.hello) >>, Ref.println_string >>,
                   << << Instr("Ldc", Ref.hello) >>, Ref.println_object >> } }

(* A binary arithmetic instruction on an empty stack and on one value. *)
UnderflowPrograms ==
    { Program("underflow", held \o << Op(op), Op("Return") >>, << >>, 0) :
        held \in { << >>, << Op("Iconst5") >>, << Op("Dconst1") >> },
        op \in { "Iadd", "Isub", "Imul", "Idiv", "Irem", "Dadd", "Dsub", "Dmul", "Ddiv" } }

(* Programs that allocate and that push references. *)
ObjectPrograms ==
    { Program("allocations",
              << Instr("Ldc", 13), Instr("Ldc", 13), Instr("Getstatic", 19),
                 Op("Iconst5"), Instr("Invokestatic", 6), Instr("Getstatic", 19),
                 Op("Return") >>, ObjectPool, 0),
      Program("two_new", << Instr("New", 9), Instr("New", 4), Op("Astore0"), Op("Return") >>,
              ObjectPool, 1),
      Program("string_builder",
              << Instr("New", 9), Instr("Invokevirtual", 11), Op("Astore0"),
                 Instr("Getstatic", 19), Op("Aload0"), Instr("Invokevirtual", 25),
                 Op("Return") >>, ObjectPool, 1),
      Program("concatenation",
              << Instr("Getstatic", 19), Op("Iconst5"), Instr("Invokedynamic", 1),
                 Instr("Invokevirtual", 25), Op("Return") >>, ObjectPool, 0) }

(* The five int instructions on pairs of ints, the extremes included; the  *)
(* divisor is not zero.                                                    *)
ArithmeticPrograms ==
    { Program("arithmetic", PushInt(a) \o PushInt(b) \o << Op(op), Op("Ireturn") >>,
              TestPool, 0) :
        op \in {"Iadd", "Isub", "Imul", "Idiv", "Irem"},
        a \in {i32_MIN, -1, 2, i32_MAX}, b \in {i32_MIN, -1, 2, i32_MAX} }

(* A pool whose entries carry inner indices 0 and beyond its end. *)
DanglingPool ==
    << CpString(0),          \* 1
       CpString(9),          \* 2
       CpMethodref(0, 0),    \* 3
       CpMethodref(9, 9),    \* 4
       CpFieldref(0, 0),     \* 5
       CpFieldref(9, 9),     \* 6
       CpClass(0),           \* 7
       CpMethodref(7, 7) >>  \* 8

(* Each of the instructions that dereference the pool, on operand index 0  *)
(* and on the entries of DanglingPool.                                     *)
DanglingPrograms ==
    { Program("dangling_pool", << Op("Iconst4"), Op("Iconst5"), Instr(ref[1], ref[2]),
                                  Op("Return") >>, DanglingPool, 0) :
        ref \in ({"Ldc"} \X {0, 1, 2}) \cup ({"Ldc2W"} \X {0, 2})
                \cup ({"Getstatic"} \X {0, 5, 6})
                \cup ({"Invokevirtual", "Invokestatic"} \X {0, 3, 4, 8}) }

MethodPrograms ==
    { SimpleArithmetic, ConditionalJump, HelloWorld, MathRandom }
    \cup IaddPrograms \cup BranchPrograms \cup PrintPrograms \cup DicePrograms
    \cup LdcPrograms \cup DivisionPrograms \cup OutOfRangePrograms
    \cup UnresolvedPrograms \cup StorePrograms
    \cup PrintlnVariants \cup UnderflowPrograms
    \cup ObjectPrograms \cup ArithmeticPrograms
    \cup DanglingPrograms

---------------------------------------------------------------------------
(* Class files with user methods, as bytes in the format parse reads.      *)

(* One instruction as the bytes parse_bytecode decodes it from: the        *)
(* writer's bytes where the writer has an arm, the decoder's table read    *)
(* backwards for the branches, loads and stores.                           *)
AssembleInstruction(ins) ==
    IF ins.op \in WriterSupportedOps THEN InstructionBytes(ins)
    ELSE LET byte == CHOOSE b \in 0..255 : Opcode(b).op = ins.op
         IN  << byte >> \o (CASE Opcode(byte).imm = 0 -> << >>
                              [] Opcode(byte).imm = 1 -> << ins.arg % 256 >>
                              [] OTHER -> U16Bytes(ins.arg))

Assemble(instructions) ==
    Concat([i \in 1..Len(instructions) |-> AssembleInstruction(instructions[i])])

Method(name_index, descriptor_index, max_locals, code) ==
    [name_index |-> name_index, descriptor_index |-> descriptor_index,
     max_locals |-> max_locals, code |-> code]

(* method_info: public static, one Code attribute that declares            *)
(* attribute_length bytes, no exception table.                             *)
MethodBytesDeclaring(m, attribute_length) ==
    LET code_bytes == Assemble(m.code)
    IN  U16Bytes(9) \o U16Bytes(m.name_index) \o U16Bytes(m.descriptor_index)
        \o U16Bytes(1) \o U16Bytes(Ref.u_Code) \o U32Bytes(attribute_length)
        \o U16Bytes(4) \o U16Bytes(m.max_locals)
        \o U32Bytes(Len(code_bytes)) \o code_bytes
        \o U16Bytes(0) \o U16Bytes(0)

(* the Code attribute declares the length it has *)
MethodBytes(m) == MethodBytesDeclaring(m, Len(Assemble(m.code)) + 12)

(* The class Demo over TestPool with the given methods. *)
ClassBytes(methods) ==
    << 202, 254, 186, 190 >> \o U16Bytes(0) \o U16Bytes(52)
    \o U16Bytes(Len(TestPool) + 1) \o write_constant_pool(TestPool)
    \o U16Bytes(33) \o U16Bytes(19) \o U16Bytes(20)
    \o U16Bytes(0) \o U16Bytes(0)
    \o U16Bytes(Len(methods)) \o Concat([i \in 1..Len(methods) |-> MethodBytes(methods[i])])
    \o U16Bytes(0)

Main(code) == Method(Ref.u_main, Ref.u_main_descriptor, 1, code)

DemoClass(name, methods) ==
    [name |-> name, count |-> 0, faces |-> 0, bytes |-> ClassBytes(methods)]

DemoClasses ==
    { \* a void method called from main
      DemoClass("void_call",
        << Main(<< Op("Iconst3"), Instr("Invokestatic", Ref.f), Op("Pop"), Op("Return") >>),
           Method(Ref.u_f, Ref.u_void_V, 0, << Op("Iconst2"), Op("Pop"), Op("Return") >>) >>),
      \* a division by zero in a called method
      DemoClass("divide_in_callee",
        << Main(<< Op("Iconst3"), Instr("Invokestatic", Ref.f), Op("Pop"), Op("Return") >>),
           Method(Ref.u_f, Ref.u_void_V, 0,
                  << Op("Iconst1"), Op("Iconst0"), Op("Irem"), Op("Pop"), Op("Return") >>) >>),
      \* a void method that runs off the end of its bytecode
      DemoClass("fall_off_end",
        << Main(<< Op("Iconst3"), Instr("Invokestatic", Ref.f), Op("Pop"), Op("Return") >>),
           Method(Ref.u_f, Ref.u_void_V, 0, << Op("Iconst2"), Op("Pop") >>) >>),
      \* main calls a, a calls b: three frames
      DemoClass("nested_void",
        << Main(<< Instr("Invokestatic", Ref.a), Op("Return") >>),
           Method(Ref.u_a, Ref.u_void_V, 0, << Instr("Invokestatic", Ref.b), Op("Return") >>),
           Method(Ref.u_b, Ref.u_void_V, 0, << Op("Return") >>) >>),
      \* a method returning an int, printed by main
      DemoClass("value_call",
        << Main(<< Instr("Invokestatic", Ref.f), Instr("Getstatic", Ref.out), Op("Swap"),
                   Instr("Invokevirtual", Ref.println_int), Op("Return") >>),
           Method(Ref.u_f, Ref.u_void_I, 0, << Op("Iconst5"), Op("Ireturn") >>) >>),
      \* two parameters
      DemoClass("arguments",
        << Main(<< Op("Iconst5"), Op("Iconst3"), Instr("Invokestatic", Ref.g),
                   Op("Return") >>),
           Method(Ref.u_g, Ref.u_II_V, 2,
                  << Op("Iload0"), Op("Iload1"), Op("Isub"), Instr("Getstatic", Ref.out),
                     Op("Swap"), Instr("Invokevirtual", Ref.println_int), Op("Return") >>) >>),
      \* int methods nested: three frames
      DemoClass("nested_value",
        << Main(<< Instr("Invokestatic", Ref.a), Op("Pop"), Op("Return") >>),
           Method(Ref.u_a, Ref.u_void_I, 0,
                  << Instr("Invokestatic", Ref.b), Op("Iconst1"), Op("Iadd"), Op("Ireturn") >>),
           Method(Ref.u_b, Ref.u_void_I, 0, << Op("Iconst2"), Op("Ireturn") >>) >>),
      \* a returns what b returns; b returns 5 for a non-zero argument and
      \* nothing for zero
      DemoClass("mixed",
        << Main(<< Instr("Invokestatic", Ref.a), Op("Pop"), Op("Iconst1"), Op("Pop"),
                   Op("Return") >>),
           Method(Ref.u_a, Ref.u_void_I, 0,
                  << Op("Iconst1"), Op("Iconst0"), Instr("Invokestatic", Ref.b),
                     Op("Ireturn") >>),
           Method(Ref.u_b, Ref.u_I_I, 1,
                  << Op("Iload0"), Instr("Ifeq", 4), Op("Iconst5"), Op("Ireturn"),
                     Op("Return") >>) >>),
      \* a method that calls itself without end
      DemoClass("self_recursion",
        << Main(<< Instr("Invokestatic", Ref.f), Op("Return") >>),
           Method(Ref.u_f, Ref.u_void_V, 0, << Instr("Invokestatic", Ref.f), Op("Return") >>) >>),
      \* a method that loops without end
      DemoClass("callee_loop",
        << Main(<< Instr("Invokestatic", Ref.f), Op("Return") >>),
           Method(Ref.u_f, Ref.u_void_V, 0, << Instr("Goto", 0) >>) >>),
      \* the class defines random and f; main calls Demo.random, Math.random
      \* and Math.f
      DemoClass("named_like_intrinsic",
        << Main(<< Op("Iconst3"), Instr("Invokestatic", Ref.demo_random), Op("Pop"),
                   Instr("Invokestatic", Ref.random), Op("Pop"),
                   Instr("Invokestatic", Ref.math_f), Op("Return") >>),
           Method(Ref.u_random, Ref.u_void_I, 0, << Op("Iconst5"), Op("Ireturn") >>),
           Method(Ref.u_f, Ref.u_void_V, 0, << Op("Return") >>) >>),
      \* two parameters, one local declared
      DemoClass("narrow_locals",
        << Main(<< Op("Iconst5"), Op("Iconst3"), Instr("Invokestatic", Ref.g),
                   Op("Return") >>),
           Method(Ref.u_g, Ref.u_II_V, 1, << Op("Iload0"), Op("Pop"), Op("Return") >>) >>),
      \* an argument missing on the caller's stack
      DemoClass("missing_argument",
        << Main(<< Instr("Invokestatic", Ref.b), Op("Return") >>),
           Method(Ref.u_b, Ref.u_I_I, 1, << Op("Iload0"), Op("Ireturn") >>) >>) }

(* `compile` then `execute`: the class files the generator writes. *)
DiceClasses ==
    { [name |-> "dice", count |-> count, faces |-> faces,
       bytes |-> generate_dice_class(Str.DiceRoll, count, faces)] :
        count \in 1..MaxCount, faces \in {2, 6} }

(* Classes with several methods named main: JavaMain has the descriptor    *)
(* ([Ljava/lang/String;)V, KotlinMain the descriptor ()V.                  *)
JavaMain(code) == Method(Ref.u_main, Ref.u_main_descriptor, 1, code)
KotlinMain(code) == Method(Ref.u_main, Ref.u_void_V, 0, code)
Body(n) == PushInt(n) \o << Op("Ireturn") >>

MainClasses ==
    { DemoClass("java_then_kotlin", << JavaMain(Body(1)), KotlinMain(Body(2)) >>),
      DemoClass("kotlin_then_java", << KotlinMain(Body(2)), JavaMain(Body(1)) >>),
      DemoClass("java_twice", << JavaMain(Body(1)), JavaMain(Body(3)) >>),
      DemoClass("kotlin_twice", << KotlinMain(Body(2)), KotlinMain(Body(4)) >>),
      \* a main()V without bytecode has no body
      DemoClass("kotlin_without_body", << KotlinMain(<< >>), JavaMain(Body(1)) >>) }

ClassFiles == DemoClasses \cup DiceClasses \cup MainClasses


---------------------------------------------------------------------------
(* The default stack VM (stack_vm.rs).  Its values are u32: a value is     *)
(* kept as two 16-bit halves [hi, lo], so that the whole range and the     *)
(* wrap at 2^32 are computed with small integers.                          *)

U32Of(n) == [hi |-> n \div 65536, lo |-> n % 65536]
ZeroU32 == U32Of(0)
u32_MAX == [hi |-> 65535, lo |-> 65535]

(* a.wrapping_add(b) *)
wrapping_add(a, b) ==
    [hi |-> (a.hi + b.hi + (a.lo + b.lo) \div 65536) % 65536, lo |-> (a.lo + b.lo) % 65536]

(* a.wrapping_sub(b) *)
wrapping_sub(a, b) ==
    [hi |-> (a.hi - b.hi - (IF a.lo < b.lo THEN 1 ELSE 0) + 131072) % 65536,
     lo |-> (a.lo - b.lo + 65536) % 65536]

(* a > b on u32 *)
GreaterU32(a, b) == a.hi > b.hi \/ (a.hi = b.hi /\ a.lo > b.lo)

(* format!("{value}"): the decimal digits, most significant first. *)
RECURSIVE U32ToString(_)
U32ToString(value) ==
    LET middle == (value.hi % 10) * 65536 + value.lo
    IN  IF value.hi = 0 /\ value.lo < 10 THEN << 48 + value.lo >>
        ELSE U32ToString([hi |-> value.hi \div 10, lo |-> middle \div 10])
             \o << 48 + (middle % 10) >>

(* Instruction: the variants Compiler::compile emits; the enum is private  *)
(* to the module and its other variants are never constructed.             *)
StackOp(op) == [op |-> op, arg |-> 0]
LdcI4(value) == [op |-> "LdcI4", arg |-> value]
Branch(op, offset) == [op |-> op, arg |-> offset]
CallWriteStrErr(s) == [op |-> "CallWriteStrErr", arg |-> s]

(* Compiler::compile for the dice node (count, faces): the locals, the     *)
(* loop with a placeholder Brfalse, the total when count > 1, then the     *)
(* Brfalse patched to the loop exit.                                       *)
Compile(count, faces) ==
    LET test == << LdcI4(count), StackOp("Stloc0"), LdcI4(faces), StackOp("Stloc1"),
                   LdcI4(ZeroU32), StackOp("Stloc2"),
                   StackOp("Ldloc0"), LdcI4(ZeroU32), StackOp("Cgt") >>
        brfalse_index == Len(test)
        loop == test \o
                << Branch("Brfalse", 0),
                   StackOp("Ldloc1"), StackOp("CallRandom"),
                   StackOp("Dup"), StackOp("CallWriteLine"),
                   StackOp("Ldloc2"), StackOp("Add"), StackOp("Stloc2"),
                   StackOp("Ldloc0"), LdcI4(U32Of(1)), StackOp("Sub"), StackOp("Stloc0"),
                   Branch("Br", 6 - 21) >>
        loop_exit_pc == Len(loop)
        bytecode == loop \o (IF GreaterU32(count, U32Of(1))
                             THEN << CallWriteStrErr(Str.Total), StackOp("Ldloc2"),
                                     StackOp("CallWriteLineErr") >>
                             ELSE << >>)
    IN  [bytecode EXCEPT ![brfalse_index + 1] = Branch("Brfalse", loop_exit_pc - brfalse_index)]

(* What rng.random_range(1..=max) can draw, of which the smallest and the   *)
(* two largest values are explored.                                        *)
RollOutcomes(max) ==
    { v \in { U32Of(1), wrapping_sub(max, U32Of(1)), max } :
        ~GreaterU32(v, max) /\ GreaterU32(v, ZeroU32) }

(* StackVm::execute_instruction on the machine vm = [stack, locals,        *)
(* written]: [err, jump, stack, locals, written], jump the relative offset *)
(* returned, 0 for the next instruction.  random_value is what the random  *)
(* source draws.                                                           *)
execute_instruction(ins, vm, random_value) ==
    LET stack == vm.stack
        depth == Len(stack)
        top == stack[depth]
        below == stack[depth - 1]
        drop(n) == SubSeq(stack, 1, depth - n)
        next(new_stack) == [err |-> "", jump |-> 0, stack |-> new_stack,
                            locals |-> vm.locals, written |-> vm.written]
        \* .ok_or(RuntimeError::InvalidStackState)?
        missing == [err |-> "InvalidStackState", jump |-> 0, stack |-> << >>,
                    locals |-> vm.locals, written |-> vm.written]
        store(k) == IF depth < 1 THEN missing
                    ELSE [next(drop(1)) EXCEPT !.locals = [vm.locals EXCEPT ![k + 1] = top]]
        \* both operands are popped before the result is pushed
        binary(value) == IF depth < 2 THEN missing ELSE next(Append(drop(2), value))
        write(stream, text) == [next(drop(1)) EXCEPT
                                   !.written = Append(vm.written,
                                                      [stream |-> stream, text |-> text])]
    IN  CASE ins.op = "LdcI4" -> next(Append(stack, ins.arg))
          [] ins.op = "Stloc0" -> store(0)
          [] ins.op = "Stloc1" -> store(1)
          [] ins.op = "Stloc2" -> store(2)
          [] ins.op = "Ldloc0" -> next(Append(stack, vm.locals[1]))
          [] ins.op = "Ldloc1" -> next(Append(stack, vm.locals[2]))
          [] ins.op = "Ldloc2" -> next(Append(stack, vm.locals[3]))
          [] ins.op = "Dup" -> IF depth < 1 THEN missing ELSE next(Append(stack, top))
          [] ins.op = "Add" -> binary(wrapping_add(below, top))
          [] ins.op = "Sub" -> binary(wrapping_sub(below, top))
          [] ins.op = "Cgt" -> binary(IF GreaterU32(below, top) THEN U32Of(1) ELSE ZeroU32)
          [] ins.op = "Br" -> [next(stack) EXCEPT !.jump = ins.arg]
          [] ins.op = "Brfalse" ->
                IF depth < 1 THEN missing
                ELSE IF top = ZeroU32 THEN [next(drop(1)) EXCEPT !.jump = ins.arg]
                ELSE next(drop(1))
          [] ins.op = "CallWriteLine" ->
                IF depth < 1 THEN missing ELSE write("stdout", U32ToString(top) \o << 10 >>)
          [] ins.op = "CallWriteLineErr" ->
                IF depth < 1 THEN missing ELSE write("stderr", U32ToString(top) \o << 10 >>)
          [] ins.op = "CallWriteStrErr" ->
                [next(stack) EXCEPT
                    !.written = Append(vm.written, [stream |-> "stderr", text |-> ins.arg])]
          [] ins.op = "CallRandom" ->
                IF depth < 1 THEN missing
                ELSE IF top = ZeroU32 THEN next(Append(drop(1), ZeroU32))
                ELSE next(Append(drop(1), random_value))
---------------------------------------------------------------------------
(* The interpreter as a state machine.                                     *)
(*                                                                         *)
(* frames, heap, string_data, next_object_id, steps and current_class are  *)
(* the fields of JvmCompatibleVm.  out is what the process has written.    *)
(* status is the position of the call of execute_method or                 *)
(* execute_class_file: "idle" before it, "running" inside its loops,       *)
(* "returned" with Ok(result), "fault" with Err(result.err), "panic" when  *)
(* the thread panicked, "aborted" when the native stack ran out.           *)
(* native_depth is the number of invoke_user_defined_method calls active   *)
(* on the native stack, each inside its sub-loop.  overflow_checks is the  *)
(* build: TRUE with checked integer arithmetic (debug), FALSE with         *)
(* wrapping arithmetic (release).                                          *)
(*                                                                         *)
(* History: input names what was started; executed counts the             *)
(* instructions dispatched; calls[i] remembers, for frame i, its last      *)
(* user-method call: the pc of the Invokestatic, the operand stack the     *)
(* call left (arguments removed), and, until frame i dispatches again,     *)
(* how the callee ended ("void" or "value") and with which value.          *)
(* codec is the state of the class-file writer and reader, pool a         *)
(* ConstantPool under construction.                                        *)

VARIABLES frames, heap, string_data, next_object_id, out, steps, current_class,
          status, result, native_depth, overflow_checks, input, executed, calls, codec, pool,
          applied, process, stack_vm

vars == << frames, heap, string_data, next_object_id, out, steps, current_class,
           status, result, native_depth, overflow_checks, input, executed, calls, codec,
           pool, applied, process, stack_vm >>

machine == << frames, heap, string_data, next_object_id, out, steps, current_class,
              status, result, native_depth, input, executed, calls >>

NoResult == [value |-> << >>, err |-> ""]
NoInput == [kind |-> "none", name |-> "", count |-> 0, faces |-> 0]
NoCall == [site |-> 0, stack |-> << >>, end |-> "none", value |-> JvmInt(0)]
NoCodec == [phase |-> "start", kind |-> "none", instructions |-> << >>, pool |-> << >>,
            bytes |-> << >>, err |-> "", decoded |-> << >>,
            class |-> ClassFile(<< >>, << >>, 0, 0, << >>)]

(* ConstantPool::new(): no entries.  A pool is kept as `base` leading      *)
(* Placeholder entries followed by `entries`; before, added, pushed and    *)
(* returned remember the last add: the number of entries before it, the    *)
(* entry it was given, how many entries it pushed and the index it         *)
(* returned (nothing when it panicked).                                    *)
NoPool == [base |-> 0, entries |-> << >>, last |-> "none", before |-> 0,
           added |-> CpPlaceholder, pushed |-> 0, returned |-> 0, panicked |-> FALSE]

(* JvmCompatibleVm::new() *)
New ==
    /\ frames = << >>
    /\ heap = << >>
    /\ string_data = << >>
    /\ next_object_id = 1
    /\ out = << >>
    /\ steps = 0
    /\ current_class = NoClass
    /\ status = "idle"
    /\ result = NoResult
    /\ native_depth = 0
    /\ input = NoInput
    /\ executed = 0
    /\ calls = << >>

(* applied holds the last application of a function that has no state.    *)
NotApplied == [function |-> "none", argument |-> << >>, types |-> << >>, value |-> 0]

(* process is the command-line process around the machine: whether main   *)
(* has ended, its exit code and what it printed to stderr on the way.      *)
Running == [exited |-> FALSE, code |-> 0, diagnostic |-> ""]

(* StackVm::new(): an empty stack, the three locals 0; nothing compiled,    *)
(* nothing written.                                                        *)
NoStackVm ==
    [status |-> "idle", count |-> ZeroU32, faces |-> ZeroU32, bytecode |-> << >>, pc |-> 0,
     stack |-> << >>, locals |-> << ZeroU32, ZeroU32, ZeroU32 >>, written |-> << >>,
     rolls |-> << >>, passes |-> 0]

Init ==
    /\ New
    /\ overflow_checks \in BOOLEAN
    /\ codec = NoCodec
    /\ pool = NoPool
    /\ applied = NotApplied
    /\ process = Running
    /\ stack_vm = NoStackVm

VM == [heap |-> heap, string_data |-> string_data, next_object_id |-> next_object_id,
       out |-> out]

SetVM(vm) ==
    /\ heap' = vm.heap
    /\ string_data' = vm.string_data
    /\ next_object_id' = vm.next_object_id
    /\ out' = vm.out

(* Err(kind) out of every loop, or the panic of the thread. *)
Raise(kind) ==
    /\ status' = (IF kind = "panic" THEN "panic" ELSE "fault")
    /\ result' = [value |-> << >>, err |-> kind]

(* execute_method up to its loop: the frame is pushed, steps = 0. *)
EnterMethod(bytecode, constant_pool, max_locals) ==
    /\ frames' = Append(frames, MethodFrame(ZeroLocals(max_locals), constant_pool, bytecode))
    /\ calls' = Append(calls, NoCall)
    /\ steps' = 0
    /\ status' = "running"
    /\ UNCHANGED << heap, string_data, next_object_id, out, result, native_depth, executed >>

ExecuteMethod ==
    /\ status = "idle"
    /\ \E p \in MethodPrograms :
          /\ EnterMethod(p.bytecode, p.constant_pool, p.max_locals)
          /\ input' = [kind |-> "method", name |-> p.name, count |-> p.count,
                       faces |-> p.faces]
    /\ UNCHANGED << current_class, overflow_checks, codec, pool, applied, process, stack_vm >>

(* execute_class_file once the file is read and parsed: the class is kept  *)
(* and its main method run, or the parser's error returned.                *)
ExecuteParsed(parsed) ==
    IF parsed.err # ""
    THEN /\ Raise(parsed.err)
         /\ UNCHANGED << frames, heap, string_data, next_object_id, out, steps,
                         current_class, native_depth, executed, calls >>
    ELSE /\ current_class' = SomeClass(parsed.class)
         /\ EnterMethod(parsed.class.main_method_bytecode, parsed.class.constant_pool,
                        parsed.class.max_locals)

ExecuteClassFile ==
    /\ status = "idle"
    /\ \E c \in ClassFiles :
          /\ input' = [kind |-> "class", name |-> c.name, count |-> c.count,
                       faces |-> c.faces]
          /\ ExecuteParsed(parse(c.bytes, overflow_checks))
    /\ UNCHANGED << overflow_checks, codec, pool, applied, process, stack_vm >>

(* execute_method called again on the instance after a call has returned   *)
(* Ok or Err: the frame is pushed on whatever frames are left, steps = 0,  *)
(* and the native stack is that of a fresh call.  The model follows one    *)
(* such later call.                                                        *)
ExecuteMethodAgain ==
    /\ status \in {"returned", "fault"}
    /\ input.kind \in {"method", "class"}
    /\ ~process.exited
    /\ \E p \in LaterPrograms :
          /\ frames' = Append(frames, MethodFrame(ZeroLocals(p.max_locals),
                                                  p.constant_pool, p.bytecode))
          /\ input' = [kind |-> "later", name |-> p.name, count |-> 0, faces |-> 0]
    /\ calls' = Append(calls, NoCall)
    /\ steps' = 0
    /\ executed' = 0
    /\ native_depth' = 0
    /\ status' = "running"
    /\ result' = NoResult
    /\ UNCHANGED << heap, string_data, next_object_id, out, current_class,
                    overflow_checks, codec, pool, applied, process, stack_vm >>

(* The loop that is running is about to call execute_single_instruction:   *)
(* `while !self.frames.is_empty()` of execute_method when no user method   *)
(* is being invoked, `while self.frames.len() > 1` of the innermost        *)
(* invoke_user_defined_method otherwise.                                   *)
CanDispatch ==
    /\ status = "running"
    /\ IF native_depth = 0 THEN frames # << >> ELSE Len(frames) > 1

TopFrame == frames[Len(frames)]
AtEnd == TopFrame.pc >= Len(TopFrame.bytecode)
Fetched == TopFrame.bytecode[TopFrame.pc + 1]

IsUserCall ==
    /\ ~AtEnd
    /\ Fetched.op = "Invokestatic"
    /\ resolve_user_method(TopFrame.constant_pool, Fetched.arg, current_class,
                           overflow_checks).k = "some"

(* the frame dispatches again: its last call is no longer pending *)
Resumed == [calls EXCEPT ![Len(calls)].end = "none"]

(* frames.pop() by a callee that returns nothing *)
PopVoid ==
    /\ frames' = Rest(frames)
    /\ calls' = IF Len(calls) > 1
                THEN [Rest(calls) EXCEPT ![Len(calls) - 1].end = "void"]
                ELSE Rest(calls)

(* `if self.steps >= self.max_steps { return Err(InvalidStackState) }` *)
StepLimit ==
    /\ CanDispatch
    /\ steps >= max_steps
    /\ Raise("InvalidStackState")
    /\ UNCHANGED << frames, heap, string_data, next_object_id, out, steps, current_class,
                    native_depth, overflow_checks, input, executed, calls, codec, pool, applied, process,
                    stack_vm >>

(* One iteration of the running loop whose instruction is not a call of a  *)
(* user method: execute_single_instruction, `self.steps += 1`, and what    *)
(* the loop does with Some(value).                                         *)
ExecuteSingleInstruction ==
    /\ CanDispatch
    /\ steps < max_steps
    /\ ~IsUserCall
    /\ IF AtEnd
       THEN \* pc past the end: the frame is popped, Ok(None)
            /\ PopVoid
            /\ steps' = steps + 1
            /\ UNCHANGED << heap, string_data, next_object_id, out, status, result,
                            native_depth, executed >>
       ELSE /\ Fetched.op \in ExecutableOps
            /\ executed' = executed + 1
            /\ \E random_value \in
                    IF DrawsRandom(Fetched, TopFrame, current_class, overflow_checks)
                    THEN RandomOutcomes ELSE { IntToDouble(0) } :
                  LET effect == ExecuteInstruction(Fetched, TopFrame, VM, current_class,
                                                   overflow_checks, random_value)
                      top == Len(frames)
                  IN  /\ SetVM(effect.vm)
                      /\ CASE effect.err # "" ->
                                /\ Raise(effect.err)
                                /\ frames' = [frames EXCEPT ![top] = effect.frame]
                                /\ calls' = Resumed
                                /\ UNCHANGED << steps, native_depth >>
                           [] effect.err = "" /\ ~effect.popped ->
                                /\ frames' = [frames EXCEPT ![top] = effect.frame]
                                /\ calls' = Resumed
                                /\ steps' = steps + 1
                                /\ UNCHANGED << status, result, native_depth >>
                           [] effect.err = "" /\ effect.popped /\ effect.ret = << >> ->
                                \* Return
                                /\ PopVoid
                                /\ steps' = steps + 1
                                /\ UNCHANGED << status, result, native_depth >>
                           [] effect.err = "" /\ effect.popped /\ effect.ret # << >>
                              /\ native_depth = 0 ->
                                \* Ireturn under execute_method: Ok(Some(value))
                                /\ frames' = Rest(frames)
                                /\ calls' = Rest(calls)
                                /\ steps' = steps + 1
                                /\ status' = "returned"
                                /\ result' = [value |-> effect.ret, err |-> ""]
                                /\ UNCHANGED native_depth
                           [] OTHER ->
                                \* Ireturn under invoke_user_defined_method: the
                                \* value goes to frames.last(), the sub-loop
                                \* breaks, the Invokestatic arm that called it
                                \* does pc += 1 on frames.last() and returns to
                                \* the enclosing loop, which counts a step
                                /\ frames' = [Rest(frames) EXCEPT ![top - 1] =
                                                 Advance(Pushed(@, effect.ret[1]))]
                                /\ calls' = [Rest(calls) EXCEPT
                                                ![top - 1].end = "value",
                                                ![top - 1].value = effect.ret[1]]
                                /\ steps' = steps + 2
                                /\ native_depth' = native_depth - 1
                                /\ UNCHANGED << status, result >>
    /\ UNCHANGED << current_class, overflow_checks, input, codec, pool, applied, process, stack_vm >>
    /\ AtEnd => UNCHANGED executed

(* An Invokestatic that resolve_user_method resolves to a method of the    *)
(* loaded class: invoke_user_defined_method up to its sub-loop.  The       *)
(* arguments are popped, the callee's frame is pushed, and one more        *)
(* sub-loop is active on the native stack, which has room for              *)
(* MaxNativeDepth of them.                                                 *)
InvokeUserDefinedMethod ==
    /\ CanDispatch
    /\ steps < max_steps
    /\ IsUserCall
    /\ LET top == Len(frames)
           name == resolve_user_method(TopFrame.constant_pool, Fetched.arg, current_class,
                                       overflow_checks).name
           method_info == current_class.class.methods[name]
           param_count == count_method_parameters(method_info.descriptor)
           stack == TopFrame.operand_stack
           args == SubSeq(stack, Len(stack) - param_count + 1, Len(stack))
           new_frame ==
               MethodFrame([i \in 1..method_info.max_locals |->
                               IF i <= param_count THEN args[i] ELSE JvmInt(0)],
                           TopFrame.constant_pool, method_info.bytecode)
       IN  IF Len(stack) < param_count
           THEN /\ Raise("StackUnderflow")
                /\ frames' = [frames EXCEPT ![top].operand_stack = << >>]
                /\ calls' = Resumed
                /\ UNCHANGED native_depth
           ELSE /\ frames' = Append([frames EXCEPT ![top] = Popped(@, param_count)],
                                    new_frame)
                /\ calls' = Append([calls EXCEPT ![top] =
                                       [site |-> TopFrame.pc,
                                        stack |-> Popped(TopFrame, param_count).operand_stack,
                                        end |-> "none", value |-> JvmInt(0)]],
                                   NoCall)
                /\ native_depth' = native_depth + 1
                /\ IF native_depth + 1 > MaxNativeDepth
                   THEN status' = "aborted" /\ UNCHANGED result
                   ELSE UNCHANGED << status, result >>
    /\ executed' = executed + 1
    /\ UNCHANGED << heap, string_data, next_object_id, out, steps, current_class,
                    overflow_checks, input, codec, pool, applied, process, stack_vm >>

(* The sub-loop of the innermost invoke_user_defined_method ends because   *)
(* one frame is left: Ok(()) to the Invokestatic arm that called it, which *)
(* does pc += 1 on frames.last() and returns to the enclosing loop, which  *)
(* counts a step.                                                          *)
SubLoopExit ==
    /\ status = "running"
    /\ native_depth > 0
    /\ Len(frames) <= 1
    /\ IF frames = << >>
       THEN Raise("CallStackUnderflow") /\ UNCHANGED << frames, steps, native_depth >>
       ELSE /\ frames' = [frames EXCEPT ![1] = Advance(@)]
            /\ steps' = steps + 1
            /\ native_depth' = native_depth - 1
            /\ UNCHANGED << status, result >>
    /\ UNCHANGED << heap, string_data, next_object_id, out, current_class, overflow_checks,
                    input, executed, calls, codec, pool, applied, process, stack_vm >>

(* The loop of execute_method ends because no frame is left: Ok(None). *)
Finish ==
    /\ status = "running"
    /\ native_depth = 0
    /\ frames = << >>
    /\ status' = "returned"
    /\ result' = NoResult
    /\ UNCHANGED << frames, heap, string_data, next_object_id, out, steps, current_class,
                    native_depth, overflow_checks, input, executed, calls, codec, pool, applied, process,
                    stack_vm >>

(* main after its subcommand has ended.  `run --jvm` has executed a dice   *)
(* program, `execute` a class file: an Err is printed with eprintln! and   *)
(* main returns, so the process exits with code 0 either way; a panic      *)
(* prints its message and exits with 101, an abort ends with SIGABRT       *)
(* (134 to the shell).                                                     *)
Exit ==
    /\ status \in {"returned", "fault", "panic", "aborted"}
    /\ input.kind = "class" \/ (input.kind = "method" /\ input.name = "dice")
    /\ ~process.exited
    /\ process' =
          [exited |-> TRUE,
           code |-> CASE status = "panic" -> 101
                      [] status = "aborted" -> 134
                      [] OTHER -> 0,
           diagnostic |-> CASE status = "returned" -> ""
                            [] status = "fault" /\ input.kind = "class" -> "JVM execution error"
                            [] status = "fault" -> "JVM VM Error"
                            [] status = "panic" -> "thread 'main' panicked"
                            [] OTHER -> "stack overflow"]
    /\ UNCHANGED << machine, overflow_checks, codec, pool, applied, stack_vm >>

Next ==
    \/ ExecuteMethod
    \/ ExecuteClassFile
    \/ ExecuteMethodAgain
    \/ ExecuteSingleInstruction
    \/ InvokeUserDefinedMethod
    \/ SubLoopExit
    \/ StepLimit
    \/ Finish
    \/ Exit

Spec == Init /\ [][Next]_vars
---------------------------------------------------------------------------
(* The class-file writer and reader as a state machine: something is       *)
(* written (phase "written"), then read back (phase "read").  codec keeps  *)
(* what went in (instructions, pool), the bytes, and what came out         *)
(* (decoded, class, err).                                                  *)

(* Instructions with immediates at the ends of their ranges, and some the  *)
(* writer has no arm for.                                                  *)
StreamInstructions ==
    { Instr("Ldc", k) : k \in {1, 24, 255, 256, u16_MAX} }
    \cup { Instr("Bipush", v) : v \in {-128, -1, 127} }
    \cup { Instr("Sipush", v) : v \in {-32768, -1, 200, 32767} }
    \cup { Instr("Getstatic", 31), Instr("Invokestatic", 35), Instr("Invokevirtual", u16_MAX),
           Op("Iadd"), Op("Swap"), Op("Return"), Op("Nop"),
           Instr("Goto", 3), Instr("Ifeq", 5), Op("Iload0"), Instr("Ldc2W", 71) }

InstructionStreams ==
    { << a >> : a \in StreamInstructions }
    \cup { << a, b >> : a \in StreamInstructions, b \in StreamInstructions }

(* generate_dice_class: the class file of count d faces. *)
GenerateDiceClass ==
    /\ codec.phase = "start"
    /\ \E class_name \in {Str.DiceRoll, Str.Demo}, count \in 1..MaxCount, faces \in DiceFaces :
          codec' = [codec EXCEPT !.phase = "written", !.kind = "class",
                                 !.instructions = generate_dice_bytecode(count, faces),
                                 !.pool = setup_constant_pool(class_name),
                                 !.bytes = generate_dice_class(class_name, count, faces)]
    /\ UNCHANGED << machine, overflow_checks, pool, applied, process, stack_vm >>

(* instructions_to_bytes on a stream *)
InstructionsToBytes ==
    /\ codec.phase = "start"
    /\ \E instructions \in InstructionStreams :
          codec' = [codec EXCEPT !.phase = "written", !.kind = "stream",
                                 !.instructions = instructions,
                                 !.bytes = instructions_to_bytes(instructions)]
    /\ UNCHANGED << machine, overflow_checks, pool, applied, process, stack_vm >>

Read(parsed, decoded) ==
    codec' = [codec EXCEPT !.phase = "read",
                           !.err = IF codec.kind = "class" THEN parsed.err ELSE decoded.err,
                           !.class = parsed.class,
                           !.decoded = decoded.instructions]

(* ClassFileParser::parse on the bytes written *)
Parse ==
    /\ codec.phase = "written"
    /\ codec.kind = "class"
    /\ Read(parse(codec.bytes, overflow_checks), [err |-> "", instructions |-> << >>])
    /\ UNCHANGED << machine, overflow_checks, pool, applied, process, stack_vm >>

(* parse_bytecode on the bytes written *)
ParseBytecode ==
    /\ codec.phase = "written"
    /\ codec.kind = "stream"
    /\ Read([err |-> "", class |-> NoCodec.class], parse_bytecode(codec.bytes))
    /\ UNCHANGED << machine, overflow_checks, pool, applied, process, stack_vm >>

CodecNext ==
    \/ GenerateDiceClass
    \/ InstructionsToBytes
    \/ Parse
    \/ ParseBytecode

CodecSpec == Init /\ [][CodecNext]_vars

---------------------------------------------------------------------------
(* Properties.                                                             *)

Ended == status \notin {"idle", "running"}
Top1 == Len(frames)
Stdout == SelectSeq(out, LAMBDA w : w.stream = "stdout")
Stderr == SelectSeq(out, LAMBDA w : w.stream = "stderr")

(* an instruction of the top frame is about to be dispatched *)
Dispatching(ops) ==
    /\ CanDispatch
    /\ steps < max_steps
    /\ ~AtEnd
    /\ Fetched.op \in ops

(* C1: one call of execute_method dispatches at most max_steps             *)
(* instructions in total, over all its frames, before it ends.             *)
C1_StepBound == executed <= max_steps

(* C2: a call of execute_method that has stopped running has returned: a   *)
(* value, None or a fault.  (Every run of the model stops: steps and the   *)
(* native stack are bounded.)                                              *)
C2_Termination == Ended => status \in {"returned", "fault"}

(* C3: when a frame dispatches again after a user method it called ended   *)
(* with Return or ran off its end, it continues at the instruction after   *)
(* the Invokestatic with the operand stack the call left, at any depth.    *)
C3_VoidCall ==
    (CanDispatch /\ calls[Top1].end = "void")
        => /\ TopFrame.pc = calls[Top1].site + 1
           /\ TopFrame.operand_stack = calls[Top1].stack

(* C4: when a frame dispatches again after a user method it called ended   *)
(* with Ireturn, the value has been pushed once on the stack the call left *)
(* and its pc is one past the Invokestatic; an Ireturn of the bottom frame *)
(* ends the run with Some(value).                                          *)
C4_ValueCallResumes ==
    (CanDispatch /\ calls[Top1].end = "value")
        => /\ TopFrame.pc = calls[Top1].site + 1
           /\ TopFrame.operand_stack = Append(calls[Top1].stack, calls[Top1].value)

C4_BottomIreturn ==
    (Dispatching({"Ireturn"}) /\ Len(frames) = 1 /\ Depth(TopFrame) >= 1)
        => /\ status' = "returned"
           /\ result' = [value |-> << Top(TopFrame.operand_stack) >>, err |-> ""]
           /\ frames' = << >>

C4_ValueCall == [](C4_ValueCallResumes) /\ [][C4_BottomIreturn]_vars

(* The integer in 0..faces + 1 a line of output shows, -1 for other text. *)
RollOf(text, faces) ==
    IF \E n \in 0..(faces + 1) : text = Line(IntToString(n))
    THEN CHOOSE n \in 0..(faces + 1) : text = Line(IntToString(n))
    ELSE -1

RECURSIVE SumOf(_)
SumOf(s) == IF s = << >> THEN 0 ELSE s[1] + SumOf(Tail(s))

DiceRolls == [i \in 1..Len(Stdout) |-> RollOf(Stdout[i].text, input.faces)]

(* C5: a dice program NdM that returns has written N lines to stdout, each *)
(* an integer in 1..M, and to stderr nothing when N = 1 and the one line   *)
(* `Total: <sum>` otherwise, after every stdout line.                      *)
C5_DiceOutput ==
    (input.name = "dice" /\ status = "returned")
        => /\ Len(Stdout) = input.count
           /\ \A i \in 1..Len(Stdout) : DiceRolls[i] \in 1..input.faces
           /\ IF input.count = 1
              THEN Stderr = << >>
              ELSE Concat([i \in 1..Len(Stderr) |-> Stderr[i].text])
                      = Line(Str.Total \o IntToString(SumOf(DiceRolls)))
           /\ \A i, j \in 1..Len(out) :
                 (i < j /\ out[i].stream = "stderr") => out[j].stream = "stderr"

ClassRead == codec.phase = "read" /\ codec.kind = "class"
StreamRead == codec.phase = "read" /\ codec.kind = "stream"

(* C6: the class file generate_dice_class writes is read back as a class   *)
(* with the one method main, selected as the main method, with the         *)
(* instructions of generate_dice_bytecode and the generator's pool.        *)
C6_ClassRoundTrip ==
    ClassRead
        => /\ codec.err = ""
           /\ DOMAIN codec.class.methods = {Str.main}
           /\ codec.class.methods[Str.main].bytecode = codec.instructions
           /\ codec.class.main_method_bytecode = codec.instructions
           /\ codec.class.constant_pool = codec.pool

C6_Witness ==
    /\ ClassRead
    /\ Len(codec.class.main_method_bytecode) > 20
    /\ Len(codec.class.constant_pool) = 35

(* C7: parse_bytecode reads the bytes of instructions_to_bytes back as a   *)
(* stream of the same length, equal to the one written where the writer    *)
(* supports the instruction and Nop elsewhere.                             *)
C7_InstructionRoundTrip ==
    StreamRead
        => /\ codec.err = ""
           /\ Len(codec.decoded) = Len(codec.instructions)
           /\ \A i \in 1..Len(codec.instructions) :
                 codec.decoded[i] = IF codec.instructions[i].op \in WriterSupportedOps
                                    THEN codec.instructions[i] ELSE Op("Nop")

IaddCase ==
    /\ Dispatching({"Iadd"})
    /\ Depth(TopFrame) >= 2
    /\ IsIntCoercible(TopFrame.operand_stack[Depth(TopFrame)])
    /\ IsIntCoercible(TopFrame.operand_stack[Depth(TopFrame) - 1])

IaddEffect ==
    LET stack == TopFrame.operand_stack
        a == as_int(stack[Len(stack) - 1])
        b == as_int(stack[Len(stack)])
    IN  /\ status' = "running"
        /\ frames' = [frames EXCEPT ![Top1] =
                         [@ EXCEPT !.operand_stack =
                                       Append(SubSeq(stack, 1, Len(stack) - 2),
                                              JvmInt(WrappingAdd(a, b))),
                                   !.pc = @ + 1]]

SimpleArithmeticReturns ==
    (input.name = "simple_arithmetic" /\ Ended)
        => status = "returned" /\ result.value = << JvmInt(5) >>

(* C8: Iadd on int-coercible a and b replaces them by Int(a + b), leaves   *)
(* the rest of the stack and the locals alone and advances pc by one;      *)
(* [Iconst2, Iconst3, Iadd, Ireturn] returns Some(Int(5)).                 *)
C8_Iadd == [](SimpleArithmeticReturns) /\ [][IaddCase => IaddEffect]_vars

ConditionalOps == {"Ifeq", "Ifne", "Iflt", "Ifge", "Ifgt", "Ifle"}

Satisfies(op, v) ==
    \/ op = "Ifeq" /\ v = 0
    \/ op = "Ifne" /\ v # 0
    \/ op = "Iflt" /\ v < 0
    \/ op = "Ifge" /\ v >= 0
    \/ op = "Ifgt" /\ v > 0
    \/ op = "Ifle" /\ v <= 0

BranchCase ==
    /\ Dispatching(ConditionalOps)
    /\ Depth(TopFrame) >= 1
    /\ Top(TopFrame.operand_stack).t = "Int"

BranchEffect ==
    /\ status' = "running"
    /\ frames' = [frames EXCEPT ![Top1] =
                     [@ EXCEPT !.operand_stack = Rest(@),
                               !.pc = IF Satisfies(Fetched.op,
                                                   Top(TopFrame.operand_stack).v)
                                      THEN Fetched.arg ELSE @ + 1]]

GotoEffect ==
    /\ status' = "running"
    /\ frames' = [frames EXCEPT ![Top1].pc = Fetched.arg]

ConditionalJumpReturns ==
    (input.name = "conditional_jump" /\ Ended)
        => status = "returned" /\ result.value = << JvmInt(1) >>

(* C9: Ifeq .. Ifle pop the int on top and set pc to the target when the   *)
(* comparison with zero holds and to pc + 1 otherwise; Goto sets pc to its *)
(* target and leaves the stack alone; [Iconst0, Ifne(5), Iconst1, Ireturn, *)
(* Iconst2, Ireturn] returns Some(Int(1)).                                 *)
C9_Branches ==
    /\ [](ConditionalJumpReturns)
    /\ [][(BranchCase => BranchEffect)
          /\ (Dispatching({"Goto"}) => GotoEffect)]_vars

C9_Witness ==
    /\ input.name = "branch"
    /\ status = "returned"
    /\ result.value = << JvmInt(2) >>
    /\ executed = 5

PrintlnMethods == PrintStreamMethods \ {"PrintStreamPrint"}

PrintCase ==
    /\ Dispatching({"Invokevirtual"})
    /\ resolve_method_reference(TopFrame.constant_pool, Fetched.arg, overflow_checks)
          \in PrintStreamMethods
    /\ Depth(TopFrame) >= 2
    /\ StreamOf(VM, TopFrame.operand_stack[Depth(TopFrame) - 1]) # "none"

PrintEffect ==
    LET stack == TopFrame.operand_stack
        method == resolve_method_reference(TopFrame.constant_pool, Fetched.arg,
                                           overflow_checks)
    IN  /\ status' = "running"
        /\ frames'[Top1].operand_stack = SubSeq(stack, 1, Len(stack) - 2)
        /\ Len(out') = Len(out) + 1
        /\ SubSeq(out', 1, Len(out)) = out
        /\ out'[Len(out')].stream = StreamOf(VM, stack[Len(stack) - 1])
        /\ method \in PrintlnMethods
              => /\ out'[Len(out')].text # << >>
                 /\ Top(out'[Len(out')].text) = 10

HelloWorldPrints ==
    (input.name = "hello_world" /\ Ended)
        => /\ status = "returned"
           /\ result = NoResult
           /\ out = << [stream |-> "stdout", text |-> Line(Str.Hello)] >>

(* C10: a PrintStream print or println intrinsic pops its argument and its *)
(* receiver and writes once, to the stream of the receiver, println with a *)
(* newline at the end; the hello-world program writes its line to stdout   *)
(* and returns None.                                                       *)
C10_PrintStream == [](HelloWorldPrints) /\ [][PrintCase => PrintEffect]_vars

Returned == status \in {"returned", "fault"}

MathRandomReturns ==
    (input.name = "math_random" /\ Ended) => status = "returned" /\ result = NoResult

(* what a call with the bytecode alone gives, whatever came before *)
LaterResult ==
    /\ (input.name = "later_return" /\ Ended)
          => status = "returned" /\ result = NoResult
    /\ (input.name = "later_arithmetic" /\ Ended)
          => status = "returned" /\ result.value = << JvmInt(5) >>

(* C11: when execute_method has returned, Ok or Err, no frame is left, and *)
(* a later call on the instance gives what its own bytecode gives;         *)
(* [Invokestatic(Math.random), Return] returns None.                       *)
C11_FramesEmpty ==
    /\ Returned => frames = << >>
    /\ MathRandomReturns
    /\ LaterResult

LoadedTwice ==
    /\ input.name = "ldc_twice"
    /\ status = "running"
    /\ frames # << >>
    /\ TopFrame.pc = 2

(* C12: two Ldc(k) executed back to back in a frame have pushed two equal  *)
(* values.                                                                 *)
C12_LdcTwice ==
    LoadedTwice
        => /\ Depth(TopFrame) = 2
           /\ TopFrame.operand_stack[1] = TopFrame.operand_stack[2]

---------------------------------------------------------------------------
(* ConstantPool as a state machine: a pool under construction by its add   *)
(* operations.                                                             *)

CheckedAdds == {"add_utf8", "add_class", "add_string", "add_fieldref"}
WideAdds == {"add_long", "add_double"}
AddOperations ==
    CheckedAdds \cup WideAdds
    \cup {"add_methodref", "add_name_and_type", "add_integer", "add_float",
          "add_placeholder"}

(* an entry of the kind each operation pushes *)
EntryOf(op) ==
    CASE op = "add_utf8" -> CpUtf8(Str.main)
      [] op = "add_class" -> CpClass(1)
      [] op = "add_string" -> CpString(1)
      [] op = "add_fieldref" -> CpFieldref(2, 3)
      [] op = "add_methodref" -> CpMethodref(2, 3)
      [] op = "add_name_and_type" -> CpNameAndType(1, 1)
      [] op = "add_integer" -> CpInteger(-1)
      [] op = "add_float" -> CpFloat([m |-> 5, e |-> -1])
      [] op = "add_long" -> CpLong(i32_MIN)
      [] op = "add_double" -> CpDouble([m |-> 3, e |-> -2])
      [] OTHER -> CpPlaceholder

PoolLen(p) == p.base + Len(p.entries)

(* entries()[i - 1] *)
PoolAt(p, i) == IF i <= p.base THEN CpPlaceholder ELSE p.entries[i - p.base]

(* `index as u16 + 1` in u16: the cast keeps the low 16 bits; the addition *)
(* overflows at 65535, which panics (-1 here) when the build checks        *)
(* overflow and wraps to 0 when it does not.                               *)
IndexAsU16PlusOne(index, checks) ==
    LET low == index % (u16_MAX + 1)
    IN  IF low = u16_MAX THEN (IF checks THEN -1 ELSE 0) ELSE low + 1

(* add_utf8 .. add_placeholder on pool p: add_utf8, add_class, add_string  *)
(* and add_fieldref panic at `index >= u16::MAX` before they push; every   *)
(* operation pushes its entry (add_long and add_double a Placeholder       *)
(* after it) and then computes the index it returns.                       *)
Add(p, op, entry, checks) ==
    LET index == PoolLen(p)
        pushed == IF op \in WideAdds THEN << entry, CpPlaceholder >> ELSE << entry >>
        returned == IndexAsU16PlusOne(index, checks)
        called == [p EXCEPT !.last = op, !.before = index, !.added = entry]
    IN  IF op \in CheckedAdds /\ index >= u16_MAX
        THEN [called EXCEPT !.pushed = 0, !.panicked = TRUE]
        ELSE [called EXCEPT !.entries = @ \o pushed,
                            !.pushed = Len(pushed),
                            !.panicked = (returned = -1),
                            !.returned = IF returned = -1 THEN @ ELSE returned]

(* One add operation on the pool. *)
AddToPool ==
    /\ ~pool.panicked
    /\ Len(pool.entries) < MaxAdds
    /\ \E op \in AddOperations : pool' = Add(pool, op, EntryOf(op), overflow_checks)
    /\ UNCHANGED << machine, overflow_checks, codec, applied, process, stack_vm >>

(* add_placeholder called on a new pool until two entries are missing to *)
(* u16::MAX: every call pushes a Placeholder and returns its index.        *)
FillPool ==
    /\ pool = NoPool
    /\ pool' = [NoPool EXCEPT !.base = u16_MAX - 2, !.last = "add_placeholder",
                              !.before = u16_MAX - 3, !.pushed = 1,
                              !.returned = u16_MAX - 2]
    /\ UNCHANGED << machine, overflow_checks, codec, applied, process, stack_vm >>

PoolNext ==
    \/ AddToPool
    \/ FillPool

PoolSpec == Init /\ [][PoolNext]_vars

Added == pool.last # "none" /\ ~pool.panicked
AddedEntries == IF pool.last \in WideAdds THEN 2 ELSE 1

(* C13: an add returns the number of entries before it plus one, the entry *)
(* at the returned index is the one added, add_long and add_double leave a *)
(* Placeholder after it, so that the next add returns two more, and the    *)
(* entries present before are unchanged.                                   *)
C13_AddReturns ==
    Added => /\ pool.returned = pool.before + 1
             /\ PoolLen(pool) = pool.before + AddedEntries
             /\ PoolAt(pool, pool.returned) = pool.added
             /\ pool.last \in WideAdds => PoolAt(pool, pool.returned + 1) = CpPlaceholder

C13_EntriesKept ==
    /\ pool'.base = pool.base \/ pool = NoPool
    /\ Len(pool'.entries) >= Len(pool.entries)
    /\ SubSeq(pool'.entries, 1, Len(pool.entries)) = pool.entries

C13_PoolIndexing == [](C13_AddReturns) /\ [][C13_EntriesKept]_vars

(* C14: the pool never holds more than 65535 entries: an add that would    *)
(* exceed that panics without pushing, and every index returned is the     *)
(* unwrapped position of the entry.                                        *)
C14_PoolCapacity ==
    /\ PoolLen(pool) <= u16_MAX
    /\ pool.panicked => pool.pushed = 0
    /\ (pool.last # "none" /\ pool.before + AddedEntries > u16_MAX) => pool.panicked
    /\ Added => pool.returned \in (pool.before + 1)..u16_MAX

(* The main method the claim names for each class of MainClasses. *)
SelectedMain ==
    [name \in {"java_then_kotlin", "kotlin_then_java", "java_twice", "kotlin_twice",
               "kotlin_without_body"} |->
        CASE name \in {"java_then_kotlin", "kotlin_then_java", "kotlin_twice"} -> Body(2)
          [] OTHER -> Body(1)]

ClassLoaded(name) == input.kind = "class" /\ input.name = name /\ current_class.loaded

(* C15: of the methods with a body the reader selects main()V when there   *)
(* is one, before or after a main([Ljava/lang/String;)V, and among mains   *)
(* of the same descriptor the first it meets.                              *)
C15_MainSelection ==
    \A name \in DOMAIN SelectedMain :
        ClassLoaded(name) =>
            current_class.class.main_method_bytecode = SelectedMain[name]

---------------------------------------------------------------------------
(* count_method_parameters applied to method descriptors.                  *)

(* Parameter types as characters: I, D, LID; (a class whose name is made   *)
(* of primitive letters), La)I; (a class name may hold a parenthesis), [I, *)
(* [[J, [[[Z, [LID; and [[LID;.                                            *)
ClassID == << 76, 73, 68, 59 >>
ParameterTypes ==
    { << 73 >>, << 68 >>, ClassID, << 76, 97, 41, 73, 59 >>, << 91, 73 >>,
      << 91, 91, 74 >>, << 91, 91, 91, 90 >>, << 91 >> \o ClassID,
      << 91, 91 >> \o ClassID }

(* V, I, LID; and [I *)
ReturnTypes == { << 86 >>, << 73 >>, ClassID, << 91, 73 >> }

ParameterLists == UNION { [1..n -> ParameterTypes] : n \in 0..MaxParams }

MethodDescriptor(types, return_type) ==
    << 40 >> \o Concat(types) \o << 41 >> \o return_type

CountMethodParameters ==
    /\ applied.function = "none"
    /\ \E types \in ParameterLists, return_type \in ReturnTypes :
          applied' = [function |-> "count_method_parameters",
                      argument |-> MethodDescriptor(types, return_type),
                      types |-> types,
                      value |-> count_method_parameters(MethodDescriptor(types, return_type))]
    /\ UNCHANGED << machine, overflow_checks, codec, pool, process, stack_vm >>

AritySpec == Init /\ [][CountMethodParameters]_vars

(* C16: count_method_parameters of a descriptor is the number of parameter *)
(* types between ( and ), for primitives, class types whose names hold     *)
(* primitive letters and arrays of any dimension; the return type is not   *)
(* counted.                                                                *)
C16_DescriptorArity ==
    applied.function = "count_method_parameters" => applied.value = Len(applied.types)

(* ([[LID;LID;[[[Z)LID; has three parameters *)
C16_Witness ==
    /\ applied.function = "count_method_parameters"
    /\ applied.argument =
          MethodDescriptor(<< << 91, 91 >> \o ClassID, ClassID, << 91, 91, 91, 90 >> >>, ClassID)
    /\ applied.value = 3

(* Idiv or Irem on an int-coercible dividend and an int divisor 0, or Ddiv *)
(* on a double dividend and a double divisor zero, is about to be          *)
(* dispatched.                                                             *)
DivisionCase ==
    LET stack == TopFrame.operand_stack
    IN  \/ /\ Dispatching({"Idiv", "Irem"})
           /\ Depth(TopFrame) >= 2
           /\ Top(stack) = JvmInt(0)
           /\ IsIntCoercible(stack[Len(stack) - 1])
        \/ /\ Dispatching({"Ddiv"})
           /\ Depth(TopFrame) >= 2
           /\ Top(stack).t = "Double" /\ Top(stack).v = 0
           /\ stack[Len(stack) - 1].t = "Double"

DivisionEffect ==
    /\ status' = "fault"
    /\ result' = [value |-> << >>, err |-> "DivisionByZero"]
    /\ frames' = [frames EXCEPT ![Top1] = Popped(@, 2)]
    /\ out' = out

DivisionEnds ==
    (input.name \in {"divide", "divide_double", "divide_float", "divide_in_callee"}
     /\ result.err = "DivisionByZero") => status = "fault"

(* C17: Idiv and Irem with int divisor 0 and Ddiv with double divisor zero *)
(* fault with DivisionByZero: the operands are popped, nothing is pushed,  *)
(* and the call of execute_method ends there with that error.              *)
C17_DivisionByZero == [](DivisionEnds) /\ [][DivisionCase => DivisionEffect]_vars

(* a double divided by 0.0 *)
C17_Witness ==
    /\ input.name = "divide_double"
    /\ status = "fault"
    /\ result.err = "DivisionByZero"
    /\ executed = 4
    /\ TopFrame.operand_stack = << JvmInt(5) >>

(* the pc of the running frame is beyond the end of its bytecode *)
OutOfRange ==
    /\ status = "running"
    /\ frames # << >>
    /\ TopFrame.pc > Len(TopFrame.bytecode)

BranchedOut == input.name \in {"goto_out", "branch_out"} /\ Ended

(* C18: once a taken Goto or If* has set pc beyond the length of the       *)
(* frame's bytecode (no other instruction can), the call faults with       *)
(* InvalidInstructionPointer; it neither goes on nor returns normally.     *)
C18_BranchOutOfRange ==
    /\ [](BranchedOut => status = "fault" /\ result.err = "InvalidInstructionPointer")
    /\ [][OutOfRange => status' = "fault" /\ result'.err = "InvalidInstructionPointer"]_vars

(* a Getstatic, Invokevirtual or Invokestatic of a program over            *)
(* IntegerPool, where no index resolves, is about to be dispatched         *)
UnresolvedCase ==
    /\ input.name = "unresolved"
    /\ Dispatching({"Getstatic", "Invokevirtual", "Invokestatic"})

UnresolvedEffect ==
    /\ status' = "fault"
    /\ result' = [value |-> << >>, err |-> "InvalidStackState"]
    /\ out' = out
    /\ Len(frames') = Len(frames)
    /\ Len(frames'[Top1].operand_stack) <= Depth(TopFrame)

(* C19: a Getstatic, Invokevirtual or Invokestatic whose index resolves to *)
(* no field, intrinsic or user method faults with InvalidStackState        *)
(* whatever the index, 31 to 36 included, writes nothing and pushes        *)
(* nothing.                                                                *)
C19_UnresolvedReference == [][UnresolvedCase => UnresolvedEffect]_vars

---------------------------------------------------------------------------
(* ClassFileParser::parse applied to class files whose constant pool ends  *)
(* with an entry of a chosen tag.                                          *)

(* An entry as the bytes of the file and the number of indices it takes. *)
PoolItem(entry) ==
    [bytes |-> EntryBytes(entry),
     slots |-> IF entry.tag \in {"Long", "Double"} THEN 2 ELSE 1,
     entry |-> entry]

(* Utf8, Integer, Long, Double, Class and a MethodHandle (tag 15) *)
PoolItems ==
    { PoolItem(CpUtf8(Str.main)), PoolItem(CpInteger(-1)), PoolItem(CpLong(i32_MIN)),
      PoolItem(CpDouble([m |-> 3, e |-> -2])), PoolItem(CpClass(1)),
      [bytes |-> << 15, 1, 0, 1 >>, slots |-> 1, entry |-> CpPlaceholder] }

PoolPrefixes == UNION { [1..n -> PoolItems] : n \in 0..MaxPrefix }

UnknownTags == { 0, 2, 13, 14, 17, 19, 20, 255 }

(* tags of entries the reader knows: MethodType and InvokeDynamic *)
KnownTags == { 16, 18 }

RECURSIVE SlotsOf(_)
SlotsOf(prefix) ==
    IF prefix = << >> THEN 0 ELSE prefix[1].slots + SlotsOf(Tail(prefix))

(* magic, version, constant_pool_count, the prefix, the last entry: its    *)
(* tag and four more bytes.                                                *)
PoolClassBytes(prefix, tag) ==
    << 202, 254, 186, 190 >> \o U16Bytes(0) \o U16Bytes(52)
    \o U16Bytes(SlotsOf(prefix) + 2)
    \o Concat([k \in 1..Len(prefix) |-> prefix[k].bytes])
    \o << tag, 0, 1, 0, 2 >>

ParseClassFile ==
    /\ applied.function = "none"
    /\ \E prefix \in PoolPrefixes, tag \in UnknownTags \cup KnownTags :
          applied' = [function |-> "parse",
                      argument |-> PoolClassBytes(prefix, tag),
                      types |-> [tag |-> tag, index |-> SlotsOf(prefix) + 1],
                      value |-> parse(PoolClassBytes(prefix, tag), overflow_checks)]
    /\ UNCHANGED << machine, overflow_checks, codec, pool, process, stack_vm >>

(* A class file with one method and one class attribute of two bytes, and  *)
(* what is left of it when it ends early or its magic is damaged.          *)
AttributedClass ==
    LET class == ClassBytes(<< JavaMain(Body(1)) >>)
    IN  SubSeq(class, 1, Len(class) - 2)
        \o U16Bytes(1) \o U16Bytes(Ref.u_f) \o U32Bytes(2) \o << 0, 1 >>

CorruptClasses ==
    { [kind |-> "truncated", at |-> n, bytes |-> SubSeq(AttributedClass, 1, n)] :
        n \in 0..(Len(AttributedClass) - 1) }
    \cup
    { [kind |-> "magic", at |-> k, bytes |-> [AttributedClass EXCEPT ![k] = 0]] : k \in 1..4 }

ParseCorruptClass ==
    /\ applied.function = "none"
    /\ \E c \in CorruptClasses :
          applied' = [function |-> "parse_corrupt",
                      argument |-> c.bytes,
                      types |-> [kind |-> c.kind, at |-> c.at],
                      value |-> parse(c.bytes, overflow_checks)]
    /\ UNCHANGED << machine, overflow_checks, codec, pool, process, stack_vm >>

(* A class file with one method whose Code attribute declares              *)
(* attribute_length bytes; when that is more than the attribute holds,     *)
(* zero bytes fill it up.                                                  *)
ClassDeclaring(m, attribute_length) ==
    LET head == ClassBytes(<< >>)
        held == Len(Assemble(m.code)) + 12
        padding == [k \in 1..(IF attribute_length > held THEN attribute_length - held ELSE 0)
                      |-> 0]
    IN  SubSeq(head, 1, Len(head) - 4) \o U16Bytes(1)
        \o MethodBytesDeclaring(m, attribute_length) \o padding \o U16Bytes(0)

(* the position of the attribute_name_index of that Code attribute *)
AttributeStart == Len(ClassBytes(<< >>)) + 7

ParseDeclaredAttribute ==
    /\ applied.function = "none"
    /\ \E m \in {JavaMain(Body(1)), JavaMain(Body(100))} :
          \E attribute_length \in 0..(Len(Assemble(m.code)) + 14) :
             applied' = [function |-> "parse_attribute",
                         argument |-> ClassDeclaring(m, attribute_length),
                         types |-> [start |-> AttributeStart, declared |-> attribute_length],
                         value |-> parse(ClassDeclaring(m, attribute_length), overflow_checks)]
    /\ UNCHANGED << machine, overflow_checks, codec, pool, process, stack_vm >>

(* A class file without fields and methods whose constant pool is the     *)
(* given items, with the count the class-file format asks for: one more    *)
(* than the indices the items take.                                        *)
PooledClassBytes(items) ==
    << 202, 254, 186, 190 >> \o U16Bytes(0) \o U16Bytes(52)
    \o U16Bytes(SlotsOf(items) + 1)
    \o Concat([k \in 1..Len(items) |-> items[k].bytes])
    \o U16Bytes(33) \o U16Bytes(1) \o U16Bytes(1)
    \o U16Bytes(0) \o U16Bytes(0) \o U16Bytes(0) \o U16Bytes(0)

(* the 1-based index of item k in the file *)
IndexInFile(items, k) == SlotsOf(SubSeq(items, 1, k - 1)) + 1

PoolsRead == UNION { [1..n -> PoolItems] : n \in 1..(MaxPrefix + 1) }

ParsePooledClass ==
    /\ applied.function = "none"
    /\ \E items \in PoolsRead :
          applied' = [function |-> "parse_pool",
                      argument |-> PooledClassBytes(items),
                      types |-> items,
                      value |-> parse(PooledClassBytes(items), overflow_checks)]
    /\ UNCHANGED << machine, overflow_checks, codec, pool, process, stack_vm >>

(* The pool the add operations build from the entries of items (add_long  *)
(* and add_double push a Placeholder), the count and the bytes             *)
(* generate_class_file writes for it, and the reader's loop on them.       *)
PoolBuilt(items) ==
    Concat([k \in 1..Len(items) |->
               IF items[k].slots = 2 THEN add_wide(<< >>, items[k].entry)
               ELSE add_entry(<< >>, items[k].entry)])

PoolsWritten ==
    UNION { [1..n -> PoolItems \ {[bytes |-> << 15, 1, 0, 1 >>, slots |-> 1,
                                    entry |-> CpPlaceholder]}] : n \in 1..(MaxPrefix + 1) }

ReadWrittenPool ==
    /\ applied.function = "none"
    /\ \E items \in PoolsWritten :
          LET cp == PoolBuilt(items)
              bytes == write_constant_pool(cp)
          IN  applied' = [function |-> "write_read_pool",
                          argument |-> bytes,
                          types |-> cp,
                          value |-> ParsePool(bytes, 1, 1, CountWritten(cp), << >>)]
    /\ UNCHANGED << machine, overflow_checks, codec, pool, process, stack_vm >>

(* parse_bytecode on a code array, one iteration of its loop at a time.    *)
(* The arrays are all sequences of up to MaxCode bytes out of opcodes      *)
(* without immediate, with one and with two immediate bytes, and bytes     *)
(* that are no opcode of the decoder (186 is invokedynamic).  read is the  *)
(* set of positions the loop has read: the opcode, and the immediate after *)
(* its length check has passed.                                            *)
CodeBytes == { 3, 16, 18, 17, 167, 182, 186, 255 }

RECURSIVE CodeArrays(_)
CodeArrays(n) ==
    IF n = 0 THEN { << >> }
    ELSE CodeArrays(n - 1)
         \cup { Append(code, b) : code \in { c \in CodeArrays(n - 1) : Len(c) = n - 1 },
                                  b \in CodeBytes }

StartBytecode ==
    /\ applied.function = "none"
    /\ \E bytecode \in CodeArrays(MaxCode) :
          applied' = [function |-> "parse_bytecode",
                      argument |-> bytecode,
                      types |-> {},
                      value |-> [err |-> "", i |-> 1, instructions |-> << >>]]
    /\ UNCHANGED << machine, overflow_checks, codec, pool, process, stack_vm >>

DecodeNext ==
    /\ applied.function = "parse_bytecode"
    /\ applied.value.err = ""
    /\ applied.value.i <= Len(applied.argument)
    /\ LET i == applied.value.i
           after == DecodeStep(applied.argument, applied.value)
       IN  applied' = [applied EXCEPT
                          !.value = after,
                          !.types = @ \cup (IF after.err = "" THEN i..(after.i - 1) ELSE {i})]
    /\ UNCHANGED << machine, overflow_checks, codec, pool, process, stack_vm >>

(* A class file over TestPool with one method whose name_index,            *)
(* descriptor_index and attribute_name_index are the given ones; the        *)
(* header and the constant pool are well formed.                            *)
MethodTableClass(name_index, descriptor_index, attribute_name_index) ==
    LET class == ClassBytes(<< Method(name_index, descriptor_index, 1, Body(1)) >>)
    IN  SubSeq(class, 1, AttributeStart - 1) \o U16Bytes(attribute_name_index)
        \o SubSeq(class, AttributeStart + 2, Len(class))

(* 0, an index of the pool, the first index beyond it, the largest u16 *)
MethodNameIndices == { 0, Ref.u_main, Ref.u_f, Len(TestPool) + 1, u16_MAX }
MethodDescriptorIndices == { 0, Ref.u_main_descriptor, Ref.u_void_V, Len(TestPool) + 1 }
AttributeNameIndices == { 0, Ref.u_Code, Ref.u_f, Len(TestPool) + 1, u16_MAX }

ParseMethodTable ==
    /\ applied.function = "none"
    /\ \E name_index \in MethodNameIndices, descriptor_index \in MethodDescriptorIndices,
          attribute_name_index \in AttributeNameIndices :
          applied' = [function |-> "parse_method_table",
                      argument |-> MethodTableClass(name_index, descriptor_index,
                                                    attribute_name_index),
                      types |-> [name_index |-> name_index,
                                 descriptor_index |-> descriptor_index,
                                 attribute_name_index |-> attribute_name_index],
                      value |-> parse(MethodTableClass(name_index, descriptor_index,
                                                       attribute_name_index),
                                      overflow_checks)]
    /\ UNCHANGED << machine, overflow_checks, codec, pool, process, stack_vm >>

ReaderNext ==
    \/ ParseClassFile
    \/ ParseCorruptClass
    \/ ParseDeclaredAttribute
    \/ ParsePooledClass
    \/ ReadWrittenPool
    \/ StartBytecode
    \/ DecodeNext
    \/ ParseMethodTable

ReaderSpec == Init /\ [][ReaderNext]_vars

(* C20: a tag byte outside {1, 3, 4, 5, 6, 7, 8, 9, 10, 11, 12, 15, 16,    *)
(* 18} stops the reader with UnknownConstantPoolTag carrying the tag and   *)
(* the 1-based index of the entry, a Long or Double before it counting     *)
(* for two; no ClassFile is returned.                                      *)
C20_UnknownTag ==
    (applied.function = "parse" /\ applied.types.tag \in UnknownTags) =>
        /\ applied.value.err = "UnknownConstantPoolTag"
        /\ applied.value.tag = applied.types.tag
        /\ applied.value.index = applied.types.index
        /\ applied.value.class = ClassFile(<< >>, << >>, 0, 0, << >>)

(* tag 17 after a Long and a Double: index 5 *)
C20_Witness ==
    /\ applied.function = "parse"
    /\ applied.argument =
          PoolClassBytes(<< PoolItem(CpLong(i32_MIN)), PoolItem(CpDouble([m |-> 3, e |-> -2])) >>,
                         17)
    /\ applied.value.err = "UnknownConstantPoolTag"
    /\ applied.value.tag = 17
    /\ applied.value.index = 5

(* C21: parse returns InvalidStackState and no ClassFile for every input   *)
(* whose first four bytes are not CA FE BA BE and for every input that     *)
(* ends before a byte its counts and lengths require.                      *)
C21_CorruptClass ==
    applied.function = "parse_corrupt" =>
        /\ applied.value.err = "InvalidStackState"
        /\ applied.value.class = ClassFile(<< >>, << >>, 0, 0, << >>)

(* C22: the run and execute subcommands exit with code 0 when the          *)
(* operation succeeded, and with a non-zero code after printing a          *)
(* diagnostic to stderr when it reported a fault.                          *)
C22_ExitStatus ==
    process.exited =>
        /\ status = "returned" => process.code = 0
        /\ status = "fault" => process.code # 0 /\ process.diagnostic # ""

(* C23: the reader consumes no byte beyond the declared length of an       *)
(* attribute it processes: after a method's only attribute, a Code         *)
(* attribute at AttributeStart, it stands at most at the first byte after  *)
(* the 6-byte header and the declared attribute_length.                    *)
C23_AttributeBounds ==
    (applied.function = "parse_attribute" /\ applied.value.err = "") =>
        applied.value.pos <= applied.types.start + 6 + applied.types.declared

(* C24: after the reader has parsed a constant pool of declared count N,   *)
(* the constant of index k in the file is at entries()[k - 1], a           *)
(* Placeholder follows each Long and Double, and the pool has N - 1        *)
(* entries.                                                                *)
C24_SlotAlignment ==
    applied.function = "parse_pool" =>
        LET items == applied.types
            entries == applied.value.class.constant_pool
        IN  /\ applied.value.err = ""
            /\ Len(entries) = SlotsOf(items)
            /\ \A k \in 1..Len(items) :
                  /\ entries[IndexInFile(items, k)] = items[k].entry
                  /\ items[k].slots = 2 => entries[IndexInFile(items, k) + 1] = CpPlaceholder

(* a Long, a Double and a Utf8: the Utf8 has index 5 *)
C24_Witness ==
    /\ applied.function = "parse_pool"
    /\ applied.types = << PoolItem(CpLong(i32_MIN)), PoolItem(CpDouble([m |-> 3, e |-> -2])),
                          PoolItem(CpUtf8(Str.main)) >>
    /\ Len(applied.value.class.constant_pool) = 5
    /\ applied.value.class.constant_pool[5] = CpUtf8(Str.main)

(* C25: the reader, fed the count and the entry bytes the writer emits     *)
(* for a pool built by add operations, rebuilds every entry at its index   *)
(* and stands at the first byte after the pool.                            *)
C25_PoolRoundTrip ==
    applied.function = "write_read_pool" =>
        /\ applied.value.err = ""
        /\ applied.value.cp = applied.types
        /\ applied.value.pos = Len(applied.argument) + 1

(* A Methodref whose class, name-and-type and their names are all in the   *)
(* pool, with the class name and the method name it gives.                 *)
WellFormedMethodref(cp, method_ref) ==
    /\ method_ref \in 1..Len(cp)
    /\ cp[method_ref].tag = "Methodref"
    /\ cp[method_ref].a \in 1..Len(cp) /\ cp[cp[method_ref].a].tag = "Class"
    /\ cp[method_ref].b \in 1..Len(cp) /\ cp[cp[method_ref].b].tag = "NameAndType"
    /\ cp[cp[method_ref].a].a \in 1..Len(cp) /\ cp[cp[cp[method_ref].a].a].tag = "Utf8"
    /\ cp[cp[method_ref].b].a \in 1..Len(cp) /\ cp[cp[cp[method_ref].b].a].tag = "Utf8"

MethodrefClassName(cp, method_ref) == cp[cp[cp[method_ref].a].a].s
MethodrefMethodName(cp, method_ref) == cp[cp[cp[method_ref].b].a].s

(* Invokestatic is about to be dispatched on a Methodref of a class        *)
(* outside java/ whose method name the loaded class defines, with the      *)
(* method's arguments on the operand stack.                                *)
UserMethodCase ==
    LET cp == TopFrame.constant_pool
        name == MethodrefMethodName(cp, Fetched.arg)
    IN  /\ Dispatching({"Invokestatic"})
        /\ current_class.loaded
        /\ WellFormedMethodref(cp, Fetched.arg)
        /\ ~StartsWith(MethodrefClassName(cp, Fetched.arg), Str.java_prefix)
        /\ name \in DOMAIN current_class.class.methods
        /\ Depth(TopFrame)
              >= count_method_parameters(current_class.class.methods[name].descriptor)

(* a new frame at pc 0 holds the bytecode of the method; nothing is        *)
(* printed and no error is raised                                          *)
UserMethodEffect ==
    LET name == MethodrefMethodName(TopFrame.constant_pool, Fetched.arg)
    IN  /\ Len(frames') = Len(frames) + 1
        /\ frames'[Len(frames')].bytecode = current_class.class.methods[name].bytecode
        /\ frames'[Len(frames')].pc = 0
        /\ out' = out
        /\ result' = result

(* Invokestatic is about to be dispatched on a Methodref of a class whose  *)
(* name begins with java/.                                                 *)
JavaMethodCase ==
    /\ Dispatching({"Invokestatic"})
    /\ WellFormedMethodref(TopFrame.constant_pool, Fetched.arg)
    /\ StartsWith(MethodrefClassName(TopFrame.constant_pool, Fetched.arg), Str.java_prefix)

(* no frame is pushed *)
JavaMethodEffect == Len(frames') <= Len(frames)

(* C26: Invokestatic on a Methodref of a class outside java/ whose method  *)
(* name is a key of the current class's methods map pushes a new frame     *)
(* with that method's bytecode (no intrinsic, no numeric fallback), and    *)
(* Invokestatic on a Methodref of a class in java/ never pushes a frame of *)
(* a user method, even when the class defines a method of that name.       *)
C26_UserMethodPrecedence ==
    /\ [][UserMethodCase => UserMethodEffect]_vars
    /\ [][JavaMethodCase => JavaMethodEffect]_vars

(* the class defines random and f: Demo.random has run as a user method,   *)
(* Math.random has pushed a double as the intrinsic, and Math.f has ended  *)
(* the run with the error of an unknown static method                      *)
C26_Witness ==
    /\ input.name = "named_like_intrinsic"
    /\ Str.random \in DOMAIN current_class.class.methods
    /\ Str.f \in DOMAIN current_class.class.methods
    /\ status = "fault"
    /\ result.err = "InvalidStackState"
    /\ Len(frames) = 1
    /\ TopFrame.pc = 5
    /\ executed = 8

(* The user method an Invokestatic about to be dispatched calls, and the   *)
(* number of parameters its descriptor declares.                           *)
CalledMethod ==
    current_class.class.methods[
        resolve_user_method(TopFrame.constant_pool, Fetched.arg, current_class,
                            overflow_checks).name]

CalledParameters == count_method_parameters(CalledMethod.descriptor)

(* Invokestatic is about to call a user method whose arguments are on the  *)
(* caller's operand stack.                                                 *)
BindingCase ==
    /\ Dispatching({"Invokestatic"})
    /\ IsUserCall
    /\ Depth(TopFrame) >= CalledParameters

(* N values are popped from the caller; the callee's frame is at pc 0 with *)
(* an empty operand stack and the caller's pool, and its local i is the    *)
(* i-th value the caller pushed, for each of the N.                        *)
BindingEffect ==
    LET stack == TopFrame.operand_stack
        N == CalledParameters
        callee == frames'[Len(frames')]
    IN  /\ Len(frames') = Len(frames) + 1
        /\ frames'[Top1] = Popped(TopFrame, N)
        /\ callee.pc = 0
        /\ callee.operand_stack = << >>
        /\ callee.constant_pool = TopFrame.constant_pool
        /\ callee.bytecode = CalledMethod.bytecode
        /\ \A i \in 1..N :
              /\ i <= Len(callee.locals)
              /\ callee.locals[i] = stack[Len(stack) - N + i]

(* C27: Invokestatic on a user method of N parameters pops exactly N       *)
(* values from the caller and starts the callee's frame at pc 0 with an    *)
(* empty operand stack, the caller's constant pool and locals[i] the i-th  *)
(* argument in the order pushed, for every i < N, whatever max_locals the  *)
(* method declares.                                                        *)
C27_ArgumentBinding == [][BindingCase => BindingEffect]_vars

(* the same for the methods that declare at least as many locals as they   *)
(* have parameters                                                         *)
BindingWithinLocals ==
    [][(BindingCase /\ CalledMethod.max_locals >= CalledParameters) => BindingEffect]_vars

(* The slot a store instruction names and the zero of its type. *)
StoredSlot ==
    CASE Fetched.op \in {"Istore", "Astore", "Dstore", "Lstore"} -> Fetched.arg
      [] Fetched.op \in {"Istore0", "Astore0", "Dstore0", "Lstore0"} -> 0
      [] Fetched.op \in {"Istore1", "Astore1", "Dstore1", "Lstore1"} -> 1
      [] Fetched.op \in {"Istore2", "Astore2", "Dstore2", "Lstore2"} -> 2
      [] Fetched.op \in {"Istore3", "Astore3", "Dstore3", "Lstore3"} -> 3

TypeZero ==
    CASE Fetched.op \in {"Istore", "Istore0", "Istore1", "Istore2", "Istore3"} ->
            [t |-> "Int", v |-> 0, x |-> 0]
      [] Fetched.op \in {"Astore", "Astore0", "Astore1", "Astore2", "Astore3"} ->
            [t |-> "Reference", v |-> 0, x |-> 0]
      [] Fetched.op \in {"Dstore", "Dstore0", "Dstore1", "Dstore2", "Dstore3"} ->
            [t |-> "Double", v |-> 0, x |-> 0]
      [] Fetched.op \in {"Lstore", "Lstore0", "Lstore1", "Lstore2", "Lstore3"} ->
            [t |-> "Long", v |-> 0, x |-> 0]

(* a store is about to be dispatched on a stack that holds a value *)
StoreCase ==
    /\ Dispatching({ "Istore", "Istore0", "Istore1", "Istore2", "Istore3",
                     "Astore", "Astore0", "Astore1", "Astore2", "Astore3",
                     "Dstore", "Dstore0", "Dstore1", "Dstore2", "Dstore3",
                     "Lstore", "Lstore0", "Lstore1", "Lstore2", "Lstore3" })
    /\ Depth(TopFrame) >= 1

StoreEffect ==
    LET stack == TopFrame.operand_stack
        locals == TopFrame.locals
        k == StoredSlot
        after == frames'[Top1]
    IN  /\ Len(frames') = Len(frames)
        /\ status' = status
        /\ after.operand_stack = SubSeq(stack, 1, Len(stack) - 1)
        /\ after.pc = TopFrame.pc + 1
        /\ Len(after.locals) = IF k >= Len(locals) THEN k + 1 ELSE Len(locals)
        /\ after.locals[k + 1] = stack[Len(stack)]
        /\ \A i \in 1..Len(after.locals) :
              i # k + 1 => after.locals[i] = IF i <= Len(locals) THEN locals[i] ELSE TypeZero

(* C28: Istore, Astore, Dstore and Lstore, indexed and _0.._3, to slot k   *)
(* pop exactly one value and store it at locals[k]; when k is not below    *)
(* the length of locals, locals grows to k + 1 with the new slots below k  *)
(* set to Int(0), Reference(None), Double(0.0) or Long(0) by the type of   *)
(* the store; the other slots and the rest of the operand stack are        *)
(* unchanged.                                                              *)
C28_StoreGrowth == [][StoreCase => StoreEffect]_vars

(* Dstore 5 on three locals: slots 3 and 4 are new and Double(0.0) *)
C28_Witness ==
    /\ input.name = "store"
    /\ status = "running"
    /\ executed = 5
    /\ TopFrame.operand_stack = << JvmInt(5) >>
    /\ TopFrame.locals = << JvmInt(0), JvmInt(4), JvmInt(0),
                            JvmDouble([m |-> 0, e |-> 0]), JvmDouble([m |-> 0, e |-> 0]),
                            JvmDouble([m |-> 1, e |-> 0]) >>

(* The descriptor a well-formed Methodref names, when the pool holds it. *)
HasDescriptor(cp, method_ref) ==
    /\ WellFormedMethodref(cp, method_ref)
    /\ cp[cp[method_ref].b].b \in 1..Len(cp)
    /\ cp[cp[cp[method_ref].b].b].tag = "Utf8"

MethodrefDescriptor(cp, method_ref) == cp[cp[cp[method_ref].b].b].s

PrintlnDescriptors ==
    { Str.I_V, Str.J_V, Str.F_V, Str.D_V, Str.Z_V, Str.C_V, Str.String_V, Str.Object_V }

(* Invokevirtual is about to be dispatched on java/io/PrintStream.println  *)
(* of one of the eight descriptors, with System.out or System.err below    *)
(* the argument.                                                           *)
PrintlnCase ==
    LET cp == TopFrame.constant_pool
        stack == TopFrame.operand_stack
    IN  /\ Dispatching({"Invokevirtual"})
        /\ HasDescriptor(cp, Fetched.arg)
        /\ MethodrefClassName(cp, Fetched.arg) = Str.java_io_PrintStream
        /\ MethodrefMethodName(cp, Fetched.arg) = Str.println
        /\ MethodrefDescriptor(cp, Fetched.arg) \in PrintlnDescriptors
        /\ Depth(TopFrame) >= 2
        /\ StreamOf(VM, stack[Len(stack) - 1]) # "none"

(* the reference resolves to a PrintStream method and the call does not    *)
(* fault; a line is written for an argument of the descriptor's type       *)
PrintlnEffect ==
    /\ resolve_method_reference(TopFrame.constant_pool, Fetched.arg, overflow_checks)
          \in PrintStreamMethods
    /\ status' = "running"
    /\ result' = result
    /\ input.name = "println_variant" => Len(out') = Len(out) + 1

(* C29: a Methodref (java/io/PrintStream, println, d) resolves to a        *)
(* PrintStream print intrinsic, never to Unknown, for every d of (I)V,     *)
(* (J)V, (F)V, (D)V, (Z)V, (C)V, (Ljava/lang/String;)V and                 *)
(* (Ljava/lang/Object;)V, so that Invokevirtual on it with a System.out or *)
(* System.err receiver prints the argument and does not fault.             *)
C29_PrintlnVariants == [][PrintlnCase => PrintlnEffect]_vars

(* the same without (J)V *)
PrintlnWithoutLong ==
    [][(PrintlnCase /\ MethodrefDescriptor(TopFrame.constant_pool, Fetched.arg) # Str.J_V)
          => PrintlnEffect]_vars

(* a binary arithmetic instruction is about to be dispatched on fewer than *)
(* two values                                                              *)
UnderflowCase ==
    /\ Dispatching({ "Iadd", "Isub", "Imul", "Idiv", "Irem", "Dadd", "Dsub", "Dmul", "Ddiv" })
    /\ Depth(TopFrame) < 2

(* C30: Iadd, Isub, Imul, Idiv, Irem, Dadd, Dsub, Dmul and Ddiv on an      *)
(* operand stack of fewer than two values fault with InvalidStackState.    *)
C30_UnderflowFault ==
    [][UnderflowCase => (status' = "fault" /\ result'.err = "InvalidStackState")]_vars

(* the same with the error the arms return for a missing operand; the int  *)
(* arms convert the first operand before they pop the second, so a double  *)
(* alone under an int instruction is InvalidStackState                     *)
UnderflowIsStackUnderflow ==
    [][UnderflowCase =>
          /\ status' = "fault"
          /\ result'.err =
                IF /\ Fetched.op \in {"Iadd", "Isub", "Imul", "Idiv", "Irem"}
                   /\ Depth(TopFrame) = 1
                   /\ TopFrame.operand_stack[1].t = "Double"
                THEN "InvalidStackState" ELSE "StackUnderflow"]_vars

(* every id in use was issued; every string has its object *)
HeapIdsIssued ==
    /\ \A id \in DOMAIN heap : id >= 1 /\ id < next_object_id
    /\ DOMAIN string_data \subseteq DOMAIN heap

(* no object and no string is removed or replaced; a new object has an id  *)
(* that was not issued before, and the ids issued only grow                *)
HeapGrows ==
    /\ \A id \in DOMAIN heap : id \in DOMAIN heap' /\ heap'[id] = heap[id]
    /\ \A id \in DOMAIN string_data :
          id \in DOMAIN string_data' /\ string_data'[id] = string_data[id]
    /\ \A id \in DOMAIN heap' \ DOMAIN heap : id >= next_object_id /\ id < next_object_id'
    /\ next_object_id' >= next_object_id

(* C31: over any sequence of instructions and execute_method calls on one  *)
(* instance, every allocation (Ldc of a String, Getstatic of System.out or *)
(* System.err, the toString intrinsics) receives an id greater than every  *)
(* id issued before, no heap object and no string-data entry is removed or *)
(* replaced, and every string-data key is a heap key.                      *)
C31_HeapMonotonic == [](HeapIdsIssued) /\ [][HeapGrows]_vars

(* a later call of execute_method has allocated a PrintStream and a string *)
(* after the five objects of the first call                                *)
C31_Witness ==
    /\ input.name = "later_allocations"
    /\ status = "returned"
    /\ DOMAIN heap = 1..7
    /\ DOMAIN string_data = {1, 2, 4, 7}
    /\ string_data[4] = << 53 >>
    /\ next_object_id = 8

(* an int instruction is about to be dispatched on two ints, the divisor   *)
(* of Idiv and Irem not zero                                               *)
IntPairCase ==
    LET stack == TopFrame.operand_stack
    IN  /\ Dispatching({"Iadd", "Isub", "Imul", "Idiv", "Irem"})
        /\ Depth(TopFrame) >= 2
        /\ stack[Len(stack)].t = "Int"
        /\ stack[Len(stack) - 1].t = "Int"
        /\ Fetched.op \in {"Idiv", "Irem"} => stack[Len(stack)].v # 0

(* what JVM int arithmetic gives *)
JvmIntResult(op, a, b) ==
    CASE op = "Iadd" -> WrappingAdd(a, b)
      [] op = "Isub" -> WrappingSub(a, b)
      [] op = "Imul" -> WrappingMul(a, b)
      [] op = "Idiv" -> IF a = i32_MIN /\ b = -1 THEN i32_MIN ELSE TruncDiv(a, b)
      [] op = "Irem" -> IF a = i32_MIN /\ b = -1 THEN 0 ELSE TruncRem(a, b)

IntPairEffect ==
    LET stack == TopFrame.operand_stack
        a == stack[Len(stack) - 1].v
        b == stack[Len(stack)].v
    IN  /\ status' = "running"
        /\ result' = result
        /\ frames'[Top1].operand_stack =
              Append(SubSeq(stack, 1, Len(stack) - 2), JvmInt(JvmIntResult(Fetched.op, a, b)))

(* C32: for every pair of 32-bit ints, Iadd, Isub and Imul push the        *)
(* two's-complement wrap-around of the exact result, and Idiv and Irem     *)
(* with a non-zero divisor never fault: Int.MIN / -1 is Int.MIN and        *)
(* Int.MIN % -1 is 0.                                                      *)
C32_IntArithmeticTotal == [][IntPairCase => IntPairEffect]_vars

(* the same for the pairs whose exact result is an i32 *)
IntArithmeticInRange ==
    [][(IntPairCase
        /\ LET stack == TopFrame.operand_stack
               a == stack[Len(stack) - 1].v
               b == stack[Len(stack)].v
           IN  CASE Fetched.op = "Iadd" -> ~AddOverflows(a, b)
                 [] Fetched.op = "Isub" -> ~SubOverflows(a, b)
                 [] Fetched.op = "Imul" -> ~MulOverflows(a, b)
                 [] OTHER -> ~(a = i32_MIN /\ b = -1))
          => IntPairEffect]_vars

(* without overflow checks Iadd, Isub and Imul wrap; Idiv and Irem of      *)
(* Int.MIN by -1 do not return in either build                             *)
IntArithmeticWraps ==
    [][(IntPairCase /\ ~overflow_checks /\ Fetched.op \in {"Iadd", "Isub", "Imul"})
          => IntPairEffect]_vars

(* The width of the immediate of each opcode that has one. *)
OneByteImmediate == { "Bipush", "Ldc", "Iload", "Aload", "Dload", "Istore", "Astore", "Dstore" }
TwoByteImmediate ==
    { "Sipush", "Ldc2W", "Ifeq", "Ifne", "Iflt", "Ifge", "Ifgt", "Ifle", "Goto", "Getstatic",
      "Invokevirtual", "Invokestatic", "Invokespecial", "New" }

ImmediateWidth(op) ==
    IF op \in OneByteImmediate THEN 1 ELSE IF op \in TwoByteImmediate THEN 2 ELSE 0

Decoding == applied.function = "parse_bytecode"

(* every position read is inside the array, and a decoding that has ended  *)
(* has the result of parse_bytecode                                        *)
DecoderInside ==
    Decoding =>
        /\ applied.types \subseteq 1..Len(applied.argument)
        /\ (applied.value.err # "" \/ applied.value.i > Len(applied.argument))
              => /\ applied.value.err = parse_bytecode(applied.argument).err
                 /\ applied.value.err = ""
                       => applied.value.instructions
                             = parse_bytecode(applied.argument).instructions

(* one iteration on the opcode at position i *)
DecoderStep ==
    LET bytecode == applied.argument
        i == applied.value.i
        op == Opcode(bytecode[i]).op
        width == ImmediateWidth(op)
        before == applied.value.instructions
        after == applied'.value
        word == bytecode[i + 1] * 256 + bytecode[i + 2]
    IN  (Decoding /\ applied.value.err = "" /\ i <= Len(bytecode)) =>
           CASE op = "" ->
                   after.err = "" /\ after.i = i + 1 /\ after.instructions = before
             [] op # "" /\ i + width > Len(bytecode) ->
                   after.err = "InvalidStackState"
             [] OTHER ->
                   /\ after.err = ""
                   /\ after.i = i + 1 + width
                   /\ Len(after.instructions) = Len(before) + 1
                   /\ SubSeq(after.instructions, 1, Len(before)) = before
                   /\ after.instructions[Len(before) + 1].op = op
                   /\ width = 1 /\ op # "Bipush"
                         => after.instructions[Len(before) + 1].arg = bytecode[i + 1]
                   /\ width = 2 /\ op # "Sipush"
                         => after.instructions[Len(before) + 1].arg = word

(* C33: for every byte sequence parse_bytecode reads no byte at or beyond  *)
(* the end of the array; a recognised opcode consumes one byte and its     *)
(* immediate (one byte for Bipush, Ldc, Iload, Aload, Dload, Istore,       *)
(* Astore, Dstore; two big-endian bytes for Sipush, Ldc2W, If*, Goto,      *)
(* Getstatic, Invoke*, New), a recognised opcode whose immediate the end   *)
(* of the array cuts off yields InvalidStackState, and an unrecognised     *)
(* opcode consumes one byte and emits no instruction.                      *)
C33_DecoderInside == [](DecoderInside) /\ [][DecoderStep]_vars

(* Sipush with its two immediate bytes, read big-endian as an i16 *)
C33_Witness ==
    /\ Decoding
    /\ applied.argument = << 17, 255, 16 >>
    /\ applied.value.err = ""
    /\ applied.value.i = 4
    /\ applied.value.instructions = << Instr("Sipush", -240) >>
    /\ applied.types = {1, 2, 3}

(* an instruction that dereferences the pool is about to be dispatched on  *)
(* DanglingPool                                                            *)
DereferenceCase ==
    /\ input.name = "dangling_pool"
    /\ Dispatching({"Ldc", "Ldc2W", "Getstatic", "Invokevirtual", "Invokestatic"})

(* the reference is resolved, or the call ends with a RuntimeError *)
DereferenceEffect ==
    \/ status' = "running"
    \/ status' = "fault" /\ result'.err # ""

(* C34: for every operand index, 0 included, and every pool, one with      *)
(* inner indices 0 or beyond the pool included, Ldc, Ldc2W, Getstatic,     *)
(* Invokevirtual and Invokestatic resolve the reference or end with a      *)
(* RuntimeError: no read outside the pool, no index underflow.             *)
C34_PoolDereference == [][DereferenceCase => DereferenceEffect]_vars

(* the same for operand index 0 in a build without overflow checks: the    *)
(* subtraction wraps and the index is out of range                         *)
OperandZeroWraps ==
    [][(DereferenceCase /\ Fetched.arg = 0 /\ ~overflow_checks) => DereferenceEffect]_vars

(* The method table of a class file with a well-formed header and pool has *)
(* been read.                                                              *)
MethodTableRead == applied.function = "parse_method_table"

(* parse has ended with a ClassFile or with a RuntimeError *)
ParseEnded == applied.value.err \in {"", "InvalidStackState", "UnknownConstantPoolTag"}

(* a method whose name_index or descriptor_index is 0 is not the main      *)
(* method; an attribute whose name index is 0 or beyond the pool is not a  *)
(* Code attribute, so the method has no bytecode and is not stored         *)
NotMainNotCode ==
    /\ (applied.types.name_index = 0 \/ applied.types.descriptor_index = 0)
       => applied.value.class.main_method_bytecode = << >>
    /\ (applied.types.attribute_name_index = 0
        \/ applied.types.attribute_name_index > Len(TestPool))
       => /\ applied.value.class.main_method_bytecode = << >>
          /\ DOMAIN applied.value.class.methods = {}

(* C35: for every class file that starts with a well-formed header and     *)
(* constant pool, parse ends with a ClassFile or a RuntimeError; a method   *)
(* whose name_index or descriptor_index is 0, or an attribute whose         *)
(* attribute_name_index is 0 or beyond the pool, is not main and not Code,  *)
(* without index underflow or out-of-range access.                          *)
C35_MethodTableTotal == MethodTableRead => (ParseEnded /\ NotMainNotCode)

(* the same in a build without overflow checks, where `index - 1` wraps to  *)
(* an index no pool has                                                     *)
MethodTableWraps == (MethodTableRead /\ ~overflow_checks) => (ParseEnded /\ NotMainNotCode)

(* with overflow checks only the indices 0 that are reached panic *)
MethodTablePanics ==
    (MethodTableRead /\ applied.value.err = "panic")
    => /\ overflow_checks
       /\ \/ applied.types.name_index = 0
          \/ applied.types.descriptor_index = 0 /\ applied.types.name_index = Ref.u_main
          \/ applied.types.attribute_name_index = 0

(* a reference that is not null *)
NonNullReference(value) == value.t = "Reference" /\ value.x = 1

(* every non-null reference on the operand stack or in a local slot of any *)
(* frame is the id of a heap object                                        *)
ReferencesInHeap ==
    \A f \in 1..Len(frames) :
       /\ \A k \in 1..Len(frames[f].operand_stack) :
             NonNullReference(frames[f].operand_stack[k])
             => frames[f].operand_stack[k].v \in DOMAIN heap
       /\ \A k \in 1..Len(frames[f].locals) :
             NonNullReference(frames[f].locals[k])
             => frames[f].locals[k].v \in DOMAIN heap

(* two New instructions that ran one after the other left two references   *)
(* on the operand stack                                                    *)
TwoNewRan ==
    /\ input.name = "two_new"
    /\ status = "running"
    /\ Len(frames) = 1
    /\ TopFrame.pc = 2

(* the two references differ *)
DistinctNew == TopFrame.operand_stack[1] # TopFrame.operand_stack[2]

(* C36: in every reachable interpreter state each non-null Reference on    *)
(* any operand stack or in any local slot is the id of a heap object, the  *)
(* values pushed by New, Invokedynamic and StringBuilder.toString          *)
(* included, and two New instructions push distinct references.            *)
C36_NoDanglingReference == ReferencesInHeap /\ (TwoNewRan => DistinctNew)

(* the references of strings, of System.out and System.err, and of         *)
(* Integer.toString are heap ids: a reference that is not is 0 (New,       *)
(* Invokedynamic) or 1 (StringBuilder.toString)                            *)
DanglingOnlyPlaceholders ==
    \A f \in 1..Len(frames) :
       /\ \A k \in 1..Len(frames[f].operand_stack) :
             (NonNullReference(frames[f].operand_stack[k])
              /\ frames[f].operand_stack[k].v \notin DOMAIN heap)
             => frames[f].operand_stack[k].v \in {0, 1}
       /\ \A k \in 1..Len(frames[f].locals) :
             (NonNullReference(frames[f].locals[k])
              /\ frames[f].locals[k].v \notin DOMAIN heap)
             => frames[f].locals[k].v \in {0, 1}

(* the max_stack that write_main_method records in the Code attribute *)
declared_max_stack == 5

(* The depth of an operand stack in the units of max_stack: a long or a    *)
(* double takes two, every other value one.                                *)
StackUnits(stack) ==
    Len(stack) + Cardinality({ k \in 1..Len(stack) : stack[k].t \in {"Long", "Double"} })

(* a generated dice program is executing, from its instructions or from    *)
(* its class file                                                          *)
DiceExecuting == input.name = "dice" /\ status = "running"

(* C37: in every state of the execution of a generated dice program, of    *)
(* the single-die and of the multi-die form, the operand stack depth is at *)
(* most the max_stack 5 of the Code attribute, no instruction underflows   *)
(* the stack, and the operand stack is empty when the final Return is      *)
(* executed.                                                               *)
C37_DiceStackDepth ==
    /\ DiceExecuting => \A f \in 1..Len(frames) :
                           StackUnits(frames[f].operand_stack) <= declared_max_stack
    /\ (input.name = "dice" /\ status = "fault") => steps >= max_steps
    /\ (DiceExecuting /\ Dispatching({"Return"})) => Depth(TopFrame) = 0

(* the multi-die program holds the total, the roll and the double of the   *)
(* faces, five units, and later reaches its Return with nothing left       *)
C37_Witness ==
    /\ DiceExecuting
    /\ input.count = 2
    /\ Dispatching({"Return"})
    /\ Depth(TopFrame) = 0
    /\ TopFrame.pc = Len(TopFrame.bytecode) - 1
    /\ Len(out) >= 3

(* the instructions of the generated program for count dice *)
DiceLength == Len(generate_dice_bytecode(input.count, input.faces))

(* C38: for every dice expression the front end accepts and the generator  *)
(* can encode, the generated program, run from its instructions with the   *)
(* step budget of the interpreter, returns None: it never ends with a      *)
(* fault, whatever the count.                                              *)
C38_DiceCompletes ==
    (input.name = "dice" /\ input.kind = "method" /\ status \notin {"idle", "running"})
    => (status = "returned" /\ result.value = << >>)

(* the same for the programs that are no longer than the step budget; a    *)
(* longer one ends with the fault of the budget after max_steps            *)
(* instructions                                                            *)
DiceWithinBudget ==
    (input.name = "dice" /\ input.kind = "method" /\ status \notin {"idle", "running"})
    => IF DiceLength <= max_steps
       THEN status = "returned" /\ result.value = << >>
       ELSE status = "fault" /\ result.err = "InvalidStackState" /\ executed = max_steps

---------------------------------------------------------------------------
(* `run <EXPR>` on the default stack VM.                                   *)

(* The dice nodes the analyzer passes on: count and faces are u32 and not  *)
(* zero.                                                                   *)
StackVmCounts == { U32Of(n) : n \in 1..(MaxCount + 1) }
StackVmFaces == { U32Of(1), U32Of(6), u32_MAX }

(* StackVm::execute up to its loop: the expression is compiled, pc is 0. *)
StackVmExecute ==
    /\ stack_vm.status = "idle"
    /\ \E count \in StackVmCounts, faces \in StackVmFaces :
          stack_vm' = [stack_vm EXCEPT !.status = "running", !.count = count,
                                       !.faces = faces,
                                       !.bytecode = Compile(count, faces), !.pc = 0]
    /\ UNCHANGED << machine, overflow_checks, codec, pool, applied, process >>

(* One iteration of the loop of StackVm::execute: the instruction at pc,   *)
(* then the new pc, and the end of the loop when pc leaves the bytecode.   *)
StackVmStep ==
    /\ stack_vm.status = "running"
    /\ LET pc == stack_vm.pc
           instruction == stack_vm.bytecode[pc + 1]
           draws == /\ instruction.op = "CallRandom"
                    /\ stack_vm.stack # << >>
                    /\ stack_vm.stack[Len(stack_vm.stack)] # ZeroU32
       IN  \E random_value \in IF draws THEN RollOutcomes(stack_vm.stack[Len(stack_vm.stack)])
                               ELSE { ZeroU32 } :
              LET effect == execute_instruction(instruction, stack_vm, random_value)
                  new_pc == IF effect.jump = 0 THEN pc + 1 ELSE pc + effect.jump
                  after == [stack_vm EXCEPT
                               !.stack = effect.stack, !.locals = effect.locals,
                               !.written = effect.written,
                               !.rolls = IF draws THEN Append(@, random_value) ELSE @,
                               !.passes = IF instruction.op = "Br" THEN @ + 1 ELSE @]
              IN  stack_vm' =
                     IF effect.err # "" \/ new_pc < 0 THEN [after EXCEPT !.status = "fault"]
                     ELSE IF new_pc >= Len(stack_vm.bytecode)
                          THEN [after EXCEPT !.status = "returned",
                                             !.pc = IF effect.jump = 0 THEN new_pc ELSE pc]
                     ELSE [after EXCEPT !.pc = new_pc]
    /\ UNCHANGED << machine, overflow_checks, codec, pool, applied, process >>

StackVmNext ==
    \/ StackVmExecute
    \/ StackVmStep

StackVmSpec == Init /\ [][StackVmNext]_vars

(* the loop of execute runs on without waiting for anything *)
FairStackVmSpec == StackVmSpec /\ WF_vars(StackVmStep)

(* StackVm::execute has returned Ok(()) *)
StackVmReturned == stack_vm.status = "returned"

(* the sum of the rolls, as a number that is not cut to 32 bits: the high  *)
(* half may pass 65535                                                     *)
RECURSIVE SumOfRolls(_)
SumOfRolls(rolls) ==
    IF rolls = << >> THEN ZeroU32
    ELSE LET rest == SumOfRolls(Tail(rolls))
             low == rest.lo + Head(rolls).lo
         IN  [hi |-> rest.hi + Head(rolls).hi + low \div 65536, lo |-> low % 65536]

(* what N rolls and, for more than one die, their total are written as *)
RollsWritten(rolls) ==
    [i \in 1..Len(rolls) |-> [stream |-> "stdout", text |-> U32ToString(rolls[i]) \o << 10 >>]]

TotalWritten(total) ==
    << [stream |-> "stderr", text |-> Str.Total],
       [stream |-> "stderr", text |-> U32ToString(total) \o << 10 >>] >>

(* N passes through the loop, left through the Brfalse with the count      *)
(* local 0; N rolls, each in 1..M                                          *)
LoopOutcome ==
    /\ U32Of(stack_vm.passes) = stack_vm.count
    /\ U32Of(Len(stack_vm.rolls)) = stack_vm.count
    /\ stack_vm.locals[1] = ZeroU32
    /\ stack_vm.stack = << >>
    /\ \A i \in 1..Len(stack_vm.rolls) :
          /\ GreaterU32(stack_vm.rolls[i], ZeroU32)
          /\ ~GreaterU32(stack_vm.rolls[i], stack_vm.faces)

(* the rolls on stdout in order, then `Total: ` and the sum of the rolls   *)
(* on stderr if and only if N > 1                                          *)
WrittenOutcome ==
    stack_vm.written =
       RollsWritten(stack_vm.rolls)
       \o (IF GreaterU32(stack_vm.count, U32Of(1))
           THEN TotalWritten(SumOfRolls(stack_vm.rolls)) ELSE << >>)

(* C39: for every accepted expression NdM, StackVm::execute terminates     *)
(* after exactly N passes through its compiled loop, having made exactly N *)
(* random rolls, each in 1..M, written to stdout in order, and then having *)
(* written `Total: ` and the sum of the rolls to stderr if and only if     *)
(* N > 1.                                                                  *)
C39_StackVmLoop ==
    /\ [](StackVmReturned => (LoopOutcome /\ WrittenOutcome))
    /\ [](stack_vm.status = "running" => <>StackVmReturned)

(* all of it but the total: execute always returns, after N passes and N   *)
(* rolls in 1..M written in order                                          *)
StackVmTerminates ==
    /\ [](stack_vm.status # "fault")
    /\ [](StackVmReturned =>
            /\ LoopOutcome
            /\ SubSeq(stack_vm.written, 1, Len(stack_vm.rolls)) = RollsWritten(stack_vm.rolls)
            /\ Len(stack_vm.written)
                  = Len(stack_vm.rolls) + (IF GreaterU32(stack_vm.count, U32Of(1)) THEN 2 ELSE 0))
    /\ [](stack_vm.status = "running" => <>StackVmReturned)

(* the total written is the sum of the rolls cut to 32 bits *)
TotalWraps ==
    (StackVmReturned /\ GreaterU32(stack_vm.count, U32Of(1)))
    => LET sum == SumOfRolls(stack_vm.rolls)
       IN  SubSeq(stack_vm.written, Len(stack_vm.rolls) + 1, Len(stack_vm.written))
              = TotalWritten([hi |-> sum.hi % 65536, lo |-> sum.lo])

(* as long as the sum of the rolls is below 2^32 the total is the sum *)
TotalWithinU32 ==
    (StackVmReturned /\ SumOfRolls(stack_vm.rolls).hi < 65536) => WrittenOutcome

====
